---------------------------- MODULE Spec2Model ----------------------------
(***************************************************************************)
(* A model of the descriptor key model (src/descriptor/key.rs) and of the  *)
(* PSBT descriptor binder (src/psbt/mod.rs) of rust-miniscript.            *)
(*                                                                         *)
(* Values of the external libraries are abstract terms:                    *)
(*   - a 32 bit unsigned integer is the pair (msb, low): its top bit and   *)
(*     its low 31 bits, so that 2^31 <= n is exactly msb = 1;              *)
(*   - an extended key is <<root, steps>>: the key `root` derived along    *)
(*     `steps`; the point derived from it along `path` is                  *)
(*     <<root, steps \o path>> (BIP32: public derivation of the            *)
(*     neutered key equals neutering the private derivation);              *)
(*   - a fingerprint is either a literal read from an origin,              *)
(*     <<"lit", s>>, or the hash of a key, <<"fp", key>>;                  *)
(*   - Option<T> is a sequence of length 0 (None) or 1 (Some).             *)
(***************************************************************************)
EXTENDS Integers, Sequences, FiniteSets, TLC

VARIABLES
    key,      \* the descriptor key an operation is called on
    call,     \* the last key operation called, with its arguments
    ret,      \* what that operation returned
    psbt,     \* the PSBT: its inputs and the inputs of its unsigned_tx
    desc,     \* the descriptor the PSBT input is updated with
    last      \* the last PSBT operation: its name, pre-state and result

vars == <<key, call, ret, psbt, desc, last>>

keyVars == <<key, call, ret>>

psbtVars == <<psbt, desc, last>>

-----------------------------------------------------------------------------
(* Bounds of the model *)

\* stored derivation paths have at most MaxPathLen steps
MaxPathLen == 1

\* candidate paths handed to matches have at most MaxCandLen steps
MaxCandLen == 3

-----------------------------------------------------------------------------
(* Option<T> *)

None == <<>>

Some(v) == <<v>>

IsSome(o) == Len(o) = 1

IsNone(o) == Len(o) = 0

Unwrap(o) == o[1]

-----------------------------------------------------------------------------
(* bip32 values *)

\* the indices used in path steps
Indices == {0, 1}

Normal(i) == [hardened |-> FALSE, index |-> i]

Hardened(i) == [hardened |-> TRUE, index |-> i]

ChildNumbers == {Normal(i) : i \in Indices} \cup {Hardened(i) : i \in Indices}

is_normal(c) == ~c.hardened

\* all paths over ChildNumbers of length exactly n / at most n
RECURSIVE PathsOfLen(_)
PathsOfLen(n) ==
    IF n = 0 THEN {<<>>}
    ELSE {Append(p, c) : p \in PathsOfLen(n - 1), c \in ChildNumbers}

PathsUpTo(n) == UNION {PathsOfLen(k) : k \in 0..n}

\* a u32 as its top bit and its low 31 bits
U32(msb, low) == [msb |-> msb, low |-> low]

\* the u32 indices derive is called with: 0, 1, 2^31-1, 2^31, 2^31+1
DeriveIndices == {U32(0, 0), U32(0, 1), U32(0, 2147483647), U32(1, 0), U32(1, 1)}

\* index < 2^31
BelowTwo31(u) == u.msb = 0

\* bip32::ChildNumber::from_normal_idx: Err(InvalidChildNumber) when bit 31 is set
from_normal_idx(u) == IF u.msb = 0 THEN Some(Normal(u.low)) ELSE None

\* bip32::ChildNumber::from_hardened_idx: Err(InvalidChildNumber) when bit 31 is set
from_hardened_idx(u) == IF u.msb = 0 THEN Some(Hardened(u.low)) ELSE None

\* the roots of the extended keys of the model
XRoots == {"xA", "xB"}

XKey(root) == <<root, <<>>>>

\* ExtendedPubKey::fingerprint / ExtendedPrivKey::fingerprint: a hash of the key
xkey_fingerprint(xkey) == <<"fp", xkey>>

LitFingerprint(s) == <<"lit", s>>

\* a bitcoin::PublicKey: the point (its x coordinate and parity) and the encoding
PublicKey(x, odd, compressed) == [x |-> x, odd |-> odd, compressed |-> compressed]

\* the x coordinate of a single (non extended) key
SingleX(name) == <<name, <<>>>>

\* ExtendedPubKey::derive_pub: fails on the first hardened step
derive_pub(xkey, path) ==
    IF \E i \in 1..Len(path) : path[i].hardened
    THEN [tag |-> "Err", err |-> "CannotDeriveFromHardenedKey"]
    ELSE [tag |-> "Ok", xkey |-> <<xkey[1], xkey[2] \o path>>]

\* ExtendedPrivKey::derive_priv: takes hardened and normal steps alike (its only
\* failure, an out-of-range tweak, has no input that produces it)
derive_priv(xkey, path) == [tag |-> "Ok", xkey |-> <<xkey[1], xkey[2] \o path>>]

\* bitcoin::PublicKey::new(xpub.public_key): always compressed
XPubPublicKey(xkey) == PublicKey(xkey, FALSE, TRUE)

\* XOnlyPublicKey::to_public_key: the even-y full key
xonly_to_public_key(x) == PublicKey(x, FALSE, TRUE)

-----------------------------------------------------------------------------
(* The key model: src/descriptor/key.rs *)

Wildcards == {"None", "Unhardened", "Hardened"}

FullKey(pk) == [kind |-> "FullKey", pk |-> pk]

XOnly(x) == [kind |-> "XOnly", x |-> x]

SinglePub(origin, k) == [tag |-> "Single", origin |-> origin, key |-> k]

DescriptorXKey(origin, xkey, path, wildcard) ==
    [tag |-> "XPub", origin |-> origin, xkey |-> xkey,
     derivation_path |-> path, wildcard |-> wildcard]

XPrv(origin, xkey, path, wildcard) ==
    [tag |-> "XPrv", origin |-> origin, xkey |-> xkey,
     derivation_path |-> path, wildcard |-> wildcard]

\* the origins of the keys of the model
Origins ==
    {None,
     Some(<<LitFingerprint("d34db33f"), <<>>>>),
     Some(<<LitFingerprint("d34db33f"), <<Hardened(0)>>>>),
     Some(<<xkey_fingerprint(XKey("xA")), <<Normal(1)>>>>)}

SinglePubKeys ==
    {FullKey(PublicKey(SingleX("p1"), FALSE, TRUE)),
     FullKey(PublicKey(SingleX("p1"), TRUE, FALSE)),
     XOnly(SingleX("p1"))}

SinglePubs == {SinglePub(o, k) : o \in Origins, k \in SinglePubKeys}

XPubs ==
    {DescriptorXKey(o, XKey(r), p, w) :
        o \in Origins, r \in XRoots, p \in PathsUpTo(MaxPathLen), w \in Wildcards}

XPrvs ==
    {XPrv(o, XKey(r), p, w) :
        o \in Origins, r \in XRoots, p \in PathsUpTo(MaxPathLen), w \in Wildcards}

DescriptorPublicKeys == SinglePubs \cup XPubs

\* the number of trailing steps of path that are normal: rev().take_while(is_normal).count()
RECURSIVE TrailingNormal(_)
TrailingNormal(path) ==
    IF Len(path) = 0 \/ ~is_normal(path[Len(path)]) THEN 0
    ELSE 1 + TrailingNormal(SubSeq(path, 1, Len(path) - 1))

\* to_public with an origin always added when there was none (the hardened_path.is_empty()
\* check at key.rs:197 left out)
to_public_always_origin(xprv) ==
    LET unhardened == TrailingNormal(xprv.derivation_path)
        last_hardened_idx == Len(xprv.derivation_path) - unhardened
        hardened_path == SubSeq(xprv.derivation_path, 1, last_hardened_idx)
        unhardened_path ==
            SubSeq(xprv.derivation_path, last_hardened_idx + 1, Len(xprv.derivation_path))
        derived == derive_priv(xprv.xkey, hardened_path)
        origin ==
            IF IsSome(xprv.origin)
            THEN Some(<<Unwrap(xprv.origin)[1], Unwrap(xprv.origin)[2] \o hardened_path>>)
            ELSE Some(<<xkey_fingerprint(xprv.xkey), hardened_path>>)
    IN  [tag |-> "Ok",
         val |-> DescriptorXKey(origin, derived.xkey, unhardened_path, xprv.wildcard)]

\* to_public making the key public where it stands and leaving every step, hardened
\* ones included, to the public key
to_public_keeping_path(xprv) ==
    [tag |-> "Ok",
     val |-> DescriptorXKey(xprv.origin, xprv.xkey, xprv.derivation_path, xprv.wildcard)]

\* to_public taking every step on the private key and leaving no step to the public
\* key
to_public_deriving_whole_path(xprv) ==
    LET hardened_path == xprv.derivation_path
        derived == derive_priv(xprv.xkey, hardened_path)
        origin ==
            IF IsSome(xprv.origin)
            THEN Some(<<Unwrap(xprv.origin)[1], Unwrap(xprv.origin)[2] \o hardened_path>>)
            ELSE IF Len(hardened_path) = 0
                 THEN None
                 ELSE Some(<<xkey_fingerprint(xprv.xkey), hardened_path>>)
    IN  [tag |-> "Ok", val |-> DescriptorXKey(origin, derived.xkey, <<>>, xprv.wildcard)]

\* DescriptorXKey<ExtendedPrivKey>::to_public
to_public(xprv) ==
    LET unhardened == TrailingNormal(xprv.derivation_path)
        last_hardened_idx == Len(xprv.derivation_path) - unhardened
        hardened_path == SubSeq(xprv.derivation_path, 1, last_hardened_idx)
        unhardened_path ==
            SubSeq(xprv.derivation_path, last_hardened_idx + 1, Len(xprv.derivation_path))
        derived == derive_priv(xprv.xkey, hardened_path)
        origin ==
            IF IsSome(xprv.origin)
            THEN Some(<<Unwrap(xprv.origin)[1], Unwrap(xprv.origin)[2] \o hardened_path>>)
            ELSE IF Len(hardened_path) = 0
                 THEN None
                 ELSE Some(<<xkey_fingerprint(xprv.xkey), hardened_path>>)
    IN  IF derived.tag # "Ok"
        THEN [tag |-> "Err", err |-> "Unable to derive the hardened steps"]
        ELSE [tag |-> "Ok",
              val |-> DescriptorXKey(origin, derived.xkey, unhardened_path, xprv.wildcard)]

\* master_fingerprint always taking the fingerprint of the key itself
master_fingerprint_ignoring_origin(k) ==
    IF k.tag = "XPub" THEN xkey_fingerprint(k.xkey) ELSE <<"fp", <<"ser", k.key>>>>

\* master_fingerprint giving 0x00000000 for a key without origin
master_fingerprint_zero_default(k) ==
    IF IsSome(k.origin) THEN Unwrap(k.origin)[1] ELSE LitFingerprint("00000000")

\* DescriptorPublicKey::master_fingerprint
master_fingerprint(k) ==
    IF k.tag = "XPub"
    THEN IF IsSome(k.origin) THEN Unwrap(k.origin)[1] ELSE xkey_fingerprint(k.xkey)
    ELSE IF IsSome(k.origin) THEN Unwrap(k.origin)[1]
         ELSE <<"fp", <<"ser", k.key>>>>

\* full_derivation_path without the extend by the key's own path
full_derivation_path_origin_only(k) == IF IsSome(k.origin) THEN Unwrap(k.origin)[2] ELSE <<>>

\* DescriptorPublicKey::full_derivation_path
full_derivation_path(k) ==
    IF k.tag = "XPub"
    THEN (IF IsSome(k.origin) THEN Unwrap(k.origin)[2] ELSE <<>>) \o k.derivation_path
    ELSE IF IsSome(k.origin) THEN Unwrap(k.origin)[2] ELSE <<>>

\* DescriptorPublicKey::is_deriveable
is_deriveable(k) == k.tag = "XPub" /\ k.wildcard # "None"

\* DerivedDescriptorKey::new: None if the key contains a wildcard
DerivedDescriptorKey_new(k, index) ==
    IF k.tag = "XPub" /\ k.wildcard # "None"
    THEN None
    ELSE Some([key |-> k, index |-> index])

\* derive_path with the two kinds of wildcard taking each other's child step
derive_path_swapped(xpub, index) ==
    CASE xpub.wildcard = "None" -> Some(xpub.derivation_path)
      [] xpub.wildcard = "Unhardened" ->
            IF IsSome(from_hardened_idx(index))
            THEN Some(Append(xpub.derivation_path, Unwrap(from_hardened_idx(index))))
            ELSE None
      [] xpub.wildcard = "Hardened" ->
            IF IsSome(from_normal_idx(index))
            THEN Some(Append(xpub.derivation_path, Unwrap(from_normal_idx(index))))
            ELSE None

\* the path of the key derive builds; None where the unwrap() of the child number panics
derive_path(xpub, index) ==
    CASE xpub.wildcard = "None" -> Some(xpub.derivation_path)
      [] xpub.wildcard = "Unhardened" ->
            IF IsSome(from_normal_idx(index))
            THEN Some(Append(xpub.derivation_path, Unwrap(from_normal_idx(index))))
            ELSE None
      [] xpub.wildcard = "Hardened" ->
            IF IsSome(from_hardened_idx(index))
            THEN Some(Append(xpub.derivation_path, Unwrap(from_hardened_idx(index))))
            ELSE None

\* DescriptorPublicKey::derive: a DerivedDescriptorKey, or a panic
derive(k, index) ==
    LET path == derive_path(k, index)
        derived ==
            IF k.tag = "Single" THEN Some(k)
            ELSE IF IsNone(path) THEN None
                 ELSE Some(DescriptorXKey(k.origin, k.xkey, Unwrap(path), "None"))
        made == IF IsNone(derived) THEN None
                ELSE DerivedDescriptorKey_new(Unwrap(derived), index)
    IN  IF IsNone(made) THEN [tag |-> "Panic"] ELSE [tag |-> "Ok", val |-> Unwrap(made)]

\* derive_public_key that reports a hardened wildcard as a plain Wildcard
derive_public_key_one_wildcard_error(k) ==
    IF k.tag = "Single"
    THEN IF k.key.kind = "FullKey"
         THEN [tag |-> "Ok", pk |-> k.key.pk]
         ELSE [tag |-> "Ok", pk |-> xonly_to_public_key(k.key.x)]
    ELSE IF k.wildcard # "None"
         THEN [tag |-> "Err", err |-> "Wildcard"]
         ELSE LET xpub == derive_pub(k.xkey, k.derivation_path)
              IN  IF xpub.tag = "Ok"
                  THEN [tag |-> "Ok", pk |-> XPubPublicKey(xpub.xkey)]
                  ELSE [tag |-> "Err", err |-> "HardenedChild"]

\* DescriptorPublicKey::derive_public_key
derive_public_key(k) ==
    IF k.tag = "Single"
    THEN IF k.key.kind = "FullKey"
         THEN [tag |-> "Ok", pk |-> k.key.pk]
         ELSE [tag |-> "Ok", pk |-> xonly_to_public_key(k.key.x)]
    ELSE CASE k.wildcard = "Unhardened" -> [tag |-> "Err", err |-> "Wildcard"]
           [] k.wildcard = "Hardened" -> [tag |-> "Err", err |-> "HardenedWildcard"]
           [] k.wildcard = "None" ->
                LET xpub == derive_pub(k.xkey, k.derivation_path)
                IN  IF xpub.tag = "Ok"
                    THEN [tag |-> "Ok", pk |-> XPubPublicKey(xpub.xkey)]
                    ELSE [tag |-> "Err", err |-> "HardenedChild"]

\* ToPublicKey for DerivedDescriptorKey: derive_public_key(..).unwrap(), a panic
\* where derive_public_key returns an error
to_public_key(derived) ==
    IF derive_public_key(derived.key).tag = "Ok"
    THEN [tag |-> "Ok", pk |-> derive_public_key(derived.key).pk]
    ELSE [tag |-> "Panic", err |-> derive_public_key(derived.key).err]

\* matches comparing the whole candidate path, the wildcard's element included
matches_keeping_last(k, fingerprint, path) ==
    LET compare_fingerprint ==
            IF IsSome(k.origin) THEN Unwrap(k.origin)[1] ELSE xkey_fingerprint(k.xkey)
        compare_path ==
            IF IsSome(k.origin)
            THEN Unwrap(k.origin)[2] \o k.derivation_path
            ELSE k.derivation_path
    IN  IF compare_fingerprint = fingerprint /\ compare_path = path
        THEN Some(path)
        ELSE None

\* DescriptorXKey::matches: Some(matched path) or None
matches(k, fingerprint, path) ==
    LET compare_fingerprint ==
            IF IsSome(k.origin) THEN Unwrap(k.origin)[1] ELSE xkey_fingerprint(k.xkey)
        compare_path ==
            IF IsSome(k.origin)
            THEN Unwrap(k.origin)[2] \o k.derivation_path
            ELSE k.derivation_path
        path_excluding_wildcard ==
            IF k.wildcard # "None" /\ Len(path) # 0
            THEN SubSeq(path, 1, Len(path) - 1)
            ELSE path
    IN  IF compare_fingerprint = fingerprint /\ compare_path = path_excluding_wildcard
        THEN Some(path_excluding_wildcard)
        ELSE None

-----------------------------------------------------------------------------
(* Descriptors, scripts and taproot spend data: the values the binder reads *)

\* the keys descriptors are made of: one with an origin, one without, a single key,
\* one with a wildcard and one with a hardened step (the last two cannot be derived)
KA == DescriptorXKey(Some(<<LitFingerprint("d34db33f"), <<Hardened(0)>>>>),
                     XKey("xA"), <<Normal(1)>>, "None")

KB == DescriptorXKey(None, XKey("xB"), <<Normal(0)>>, "None")

KS == SinglePub(None, FullKey(PublicKey(SingleX("p1"), FALSE, TRUE)))

KW == DescriptorXKey(None, XKey("xB"), <<Normal(0)>>, "Unhardened")

KH == DescriptorXKey(None, XKey("xA"), <<Hardened(0)>>, "None")

DescKeys == {KA, KB, KS, KW, KH}

\* a descriptor has at most MaxLeaves taproot leaves
MaxLeaves == 2

\* PkPkh::PlainPubkey / PkPkh::HashedPubkey occurrences of a key in a leaf
Plain(k) == <<"pk", k>>

Hashed(k) == <<"pkh", k>>

Leaf(ms, keys) == [ms |-> ms, keys |-> keys]

\* the leaves of the model: pk(B), pkh(A), multi_a(B,A), a leaf using B twice,
\* and a leaf whose key cannot be derived
LeafSet ==
    {Leaf("pk", <<Plain(KB)>>),
     Leaf("pkh", <<Hashed(KA)>>),
     Leaf("multi_a", <<Plain(KB), Plain(KA)>>),
     Leaf("and_v", <<Plain(KB), Hashed(KB)>>),
     Leaf("pk", <<Plain(KH)>>)}

RECURSIVE SeqsOfLen(_, _)
SeqsOfLen(S, n) ==
    IF n = 0 THEN {<<>>}
    ELSE {Append(q, e) : q \in SeqsOfLen(S, n - 1), e \in S}

SeqsUpTo(S, n) == UNION {SeqsOfLen(S, k) : k \in 0..n}

Descriptor(shape, keys, leaves) == [shape |-> shape, keys |-> keys, leaves |-> leaves]

\* the shapes with exactly one key, and those over a miniscript or a sorted multisig
OneKeyShapes == {"Pkh", "Wpkh", "ShWpkh"}

ScriptShapes == {"Bare", "ShWsh", "ShSortedMulti", "ShMs", "Wsh"}

KeySeqs == {<<k>> : k \in DescKeys} \cup {<<KA, KB>>, <<KA, KA>>, <<KB, KW>>}

Descriptors ==
    {Descriptor(sh, <<k>>, <<>>) : sh \in OneKeyShapes, k \in DescKeys}
    \cup {Descriptor(sh, ks, <<>>) : sh \in ScriptShapes, ks \in KeySeqs}
    \cup {Descriptor("Tr", <<k>>, ls) : k \in {KA, KS}, ls \in SeqsUpTo(LeafSet, MaxLeaves)}

\* Descriptor::desc_type().segwit_version(): 0 or 1 for a segwit descriptor
segwit_version(d) ==
    CASE d.shape = "Tr" -> Some(1)
      [] d.shape \in {"Wpkh", "ShWpkh", "Wsh", "ShWsh"} -> Some(0)
      [] OTHER -> None

\* the descriptor's keys in the order translate_pk visits them
RECURSIVE LeafKeysFrom(_, _)
LeafKeysFrom(leaves, i) ==
    IF i > Len(leaves) THEN <<>>
    ELSE [j \in 1..Len(leaves[i].keys) |-> leaves[i].keys[j][2]] \o LeafKeysFrom(leaves, i + 1)

KeysInOrder(d) == d.keys \o LeafKeysFrom(d.leaves, 1)

\* the first error translate_pk / translate_pk2 stops at, if any
TranslateError(d) ==
    LET ks == KeysInOrder(d)
        bad == {i \in 1..Len(ks) : derive_public_key(ks[i]).tag = "Err"}
    IN  IF bad = {} THEN None
        ELSE Some(derive_public_key(ks[CHOOSE i \in bad : \A j \in bad : i <= j]).err)

\* to_x_only_pubkey: the point's x coordinate
to_x_only_pubkey(pk) == pk.x

\* XOnlyPublicKey::to_pubkeyhash: a hash of the x-only key
to_pubkeyhash(x) == <<"h160", x>>

\* the derived (concrete) descriptor translate_pk returns when no key fails
DerivedLeaf(leaf) ==
    Leaf(leaf.ms,
         [j \in 1..Len(leaf.keys) |->
            LET pk == derive_public_key(leaf.keys[j][2]).pk
            IN  IF leaf.keys[j][1] = "pk"
                THEN <<"pk", to_x_only_pubkey(pk)>>
                ELSE <<"pkh", to_pubkeyhash(to_x_only_pubkey(pk))>>])

Derived(d) ==
    Descriptor(d.shape,
               [i \in 1..Len(d.keys) |-> derive_public_key(d.keys[i]).pk],
               [i \in 1..Len(d.leaves) |-> DerivedLeaf(d.leaves[i])])

\* the hash_lookup map translate_pk fills: pubkey hash -> x-only key
HashLookup(d) ==
    LET xs == UNION {{to_x_only_pubkey(derive_public_key(d.leaves[i].keys[j][2]).pk) :
                        j \in {j \in 1..Len(d.leaves[i].keys) : d.leaves[i].keys[j][1] = "pkh"}} :
                     i \in 1..Len(d.leaves)}
    IN  [h \in {to_pubkeyhash(x) : x \in xs} |-> CHOOSE x \in xs : to_pubkeyhash(x) = h]

\* Miniscript::encode of a derived leaf
LeafScript(dleaf) == <<"tapscript", dleaf.ms, dleaf.keys>>

\* TapLeafHash::from_script(script, LeafVersion::TapScript)
TapLeafHash(script) == <<"tlh", script>>

\* TaprootSpendInfo::merkle_root: None for a key-path-only tree
merkle_root(dd) ==
    IF Len(dd.leaves) = 0 THEN None
    ELSE Some(<<"root", [i \in 1..Len(dd.leaves) |-> TapLeafHash(LeafScript(dd.leaves[i]))]>>)

\* TaprootSpendInfo::control_block of a leaf script of the tree
control_block(dd, script) == <<"cb", to_x_only_pubkey(dd.keys[1]), merkle_root(dd), script>>

\* the script a sh(..) or wsh(..) wraps, and Script::to_v0_p2wsh
inner_script(dd) ==
    CASE dd.shape = "ShWpkh" -> <<"p2wpkh", dd.keys[1]>>
      [] dd.shape \in {"ShSortedMulti"} -> <<"sortedmulti", {dd.keys[i] : i \in 1..Len(dd.keys)}>>
      [] OTHER -> <<"ms", dd.keys>>

to_v0_p2wsh(script) == <<"p2wsh", script>>

\* Descriptor::script_pubkey of a derived descriptor
script_pubkey(dd) ==
    CASE dd.shape = "Tr" -> <<"p2tr", <<to_x_only_pubkey(dd.keys[1]), merkle_root(dd)>>>>
      [] dd.shape = "Bare" -> inner_script(dd)
      [] dd.shape = "Pkh" -> <<"p2pkh", dd.keys[1]>>
      [] dd.shape = "Wpkh" -> <<"p2wpkh", dd.keys[1]>>
      [] dd.shape = "Wsh" -> to_v0_p2wsh(inner_script(dd))
      [] dd.shape = "ShWsh" -> <<"p2sh", to_v0_p2wsh(inner_script(dd))>>
      [] OTHER -> <<"p2sh", inner_script(dd)>>

\* Script::default(), the empty script
EmptyScript == <<"empty", <<>>>>

-----------------------------------------------------------------------------
(* The PSBT descriptor binder: src/psbt/mod.rs *)

\* BTreeMap::insert
MapInsert(m, k, v) == [x \in DOMAIN m \cup {k} |-> IF x = k THEN v ELSE m[x]]

EmptyMap == [x \in {} |-> x]

\* the origin recorded for a descriptor key
KeySource(xpk) == <<master_fingerprint(xpk), full_derivation_path(xpk)>>

\* the entry written with a plain insert, dropping what was recorded for the key
InsertLeafKey_replacing(origins, xonly, xpk, tapleaf_hash) ==
    MapInsert(origins, xonly, <<<<tapleaf_hash>>, KeySource(xpk)>>)

\* the entry left as it is when the key already has one (no push in and_modify)
InsertLeafKey_keeping_first(origins, xonly, xpk, tapleaf_hash) ==
    IF xonly \in DOMAIN origins
    THEN origins
    ELSE MapInsert(origins, xonly, <<<<tapleaf_hash>>, KeySource(xpk)>>)

\* the leaf hash pushed unless the list holds it anywhere (contains instead of last)
InsertLeafKey_unless_listed(origins, xonly, xpk, tapleaf_hash) ==
    IF xonly \in DOMAIN origins
    THEN LET tapleaf_hashes == origins[xonly][1]
         IN  IF \E i \in 1..Len(tapleaf_hashes) : tapleaf_hashes[i] = tapleaf_hash
             THEN origins
             ELSE MapInsert(origins, xonly,
                            <<Append(tapleaf_hashes, tapleaf_hash), origins[xonly][2]>>)
    ELSE MapInsert(origins, xonly, <<<<tapleaf_hash>>, KeySource(xpk)>>)

\* tap_key_origins.entry(xonly).and_modify(push unless last).or_insert_with(..)
InsertLeafKey(origins, xonly, xpk, tapleaf_hash) ==
    IF xonly \in DOMAIN origins
    THEN LET tapleaf_hashes == origins[xonly][1]
         IN  IF Len(tapleaf_hashes) > 0 /\ tapleaf_hashes[Len(tapleaf_hashes)] = tapleaf_hash
             THEN origins
             ELSE MapInsert(origins, xonly,
                            <<Append(tapleaf_hashes, tapleaf_hash), origins[xonly][2]>>)
    ELSE MapInsert(origins, xonly, <<<<tapleaf_hash>>, KeySource(xpk)>>)


\* the loop over the keys of one leaf (mod.rs:990-1018), from key j on
RECURSIVE LeafKeysLoop(_, _, _, _, _, _)
LeafKeysLoop(origins, hash_lookup, ms_derived, ms, tapleaf_hash, j) ==
    IF j > Len(ms.keys) THEN origins
    ELSE LET xonly == IF ms_derived.keys[j][1] = "pk"
                      THEN ms_derived.keys[j][2]
                      ELSE hash_lookup[ms_derived.keys[j][2]]
             xpk == ms.keys[j][2]
         IN  LeafKeysLoop(InsertLeafKey(origins, xonly, xpk, tapleaf_hash),
                          hash_lookup, ms_derived, ms, tapleaf_hash, j + 1)

\* the loop over the leaves (mod.rs:979-1019), from leaf i on
RECURSIVE LeavesLoop(_, _, _, _, _)
LeavesLoop(input, hash_lookup, tr_derived, tr_xpk, i) ==
    IF i > Len(tr_xpk.leaves) THEN input
    ELSE LET leaf_script == LeafScript(tr_derived.leaves[i])
             tapleaf_hash == TapLeafHash(leaf_script)
             cb == control_block(tr_derived, leaf_script)
         IN  LeavesLoop(
                 [input EXCEPT
                    !.tap_scripts = MapInsert(@, cb, <<leaf_script, "TapScript">>),
                    !.tap_key_origins =
                        LeafKeysLoop(@, hash_lookup, tr_derived.leaves[i],
                                     tr_xpk.leaves[i], tapleaf_hash, 1)],
                 hash_lookup, tr_derived, tr_xpk, i + 1)

\* the taproot branch once the script check has passed (mod.rs:965-1020)
PopulateTr(input, tr_xpk) ==
    LET tr_derived == Derived(tr_xpk)
        ik_derived == to_x_only_pubkey(tr_derived.keys[1])
        ik_xpk == tr_xpk.keys[1]
    IN  LeavesLoop(
            [input EXCEPT
               !.tap_internal_key = Some(ik_derived),
               !.tap_merkle_root = merkle_root(tr_derived),
               !.tap_key_origins = MapInsert(@, ik_derived, <<<<>>, KeySource(ik_xpk)>>)],
            HashLookup(tr_xpk), tr_derived, tr_xpk, 1)

\* the map translate_pk2's closure fills (mod.rs:1025-1033): a later key replaces an
\* earlier one with the same point
Bip32Derivation(d) ==
    LET inner(i) == [x |-> derive_public_key(d.keys[i]).pk.x,
                     odd |-> derive_public_key(d.keys[i]).pk.odd]
        idx == 1..Len(d.keys)
    IN  [p \in {inner(i) : i \in idx} |->
            KeySource(d.keys[CHOOSE i \in idx :
                                /\ inner(i) = p
                                /\ \A j \in idx : inner(j) = p => j <= i])]

\* the other branch with every sh(..) treated as sh(wsh(..))
PopulateNonTr_sh_as_sh_wsh(input, d) ==
    LET derived == Derived(d)
        with_bip32 == [input EXCEPT !.bip32_derivation = Bip32Derivation(d)]
    IN  CASE derived.shape \in {"Bare", "Pkh", "Wpkh"} -> with_bip32
          [] derived.shape \in {"ShWsh", "ShWpkh", "ShSortedMulti", "ShMs"} ->
                [with_bip32 EXCEPT
                   !.witness_script = Some(inner_script(derived)),
                   !.redeem_script = Some(to_v0_p2wsh(inner_script(derived)))]
          [] derived.shape = "Wsh" ->
                [with_bip32 EXCEPT !.witness_script = Some(inner_script(derived))]

\* the other branch once the script check has passed (mod.rs:1041-1057)
PopulateNonTr(input, d) ==
    LET derived == Derived(d)
        with_bip32 == [input EXCEPT !.bip32_derivation = Bip32Derivation(d)]
    IN  CASE derived.shape \in {"Bare", "Pkh", "Wpkh"} -> with_bip32
          [] derived.shape = "ShWsh" ->
                [with_bip32 EXCEPT
                   !.witness_script = Some(inner_script(derived)),
                   !.redeem_script = Some(to_v0_p2wsh(inner_script(derived)))]
          [] derived.shape = "ShWpkh" ->
                [with_bip32 EXCEPT !.redeem_script = Some(inner_script(derived))]
          [] derived.shape \in {"ShSortedMulti", "ShMs"} ->
                [with_bip32 EXCEPT !.redeem_script = Some(inner_script(derived))]
          [] derived.shape = "Wsh" ->
                [with_bip32 EXCEPT !.witness_script = Some(inner_script(derived))]

Populate(input, d) == IF d.shape = "Tr" THEN PopulateTr(input, d) ELSE PopulateNonTr(input, d)

\* the helper populating the input although the script check failed
update_input_with_descriptor_helper_check_last(input, d, check_script) ==
    IF IsSome(TranslateError(d))
    THEN [tag |-> "Err", err |-> Unwrap(TranslateError(d)), input |-> input]
    ELSE IF IsSome(check_script) /\ Unwrap(check_script) # script_pubkey(Derived(d))
         THEN [tag |-> "Ok", derived |-> Derived(d), passed |-> FALSE,
               input |-> Populate(input, d)]
         ELSE [tag |-> "Ok", derived |-> Derived(d), passed |-> TRUE,
               input |-> Populate(input, d)]

\* update_input_with_descriptor_helper: the result and the input as it is left
update_input_with_descriptor_helper(input, d, check_script) ==
    IF IsSome(TranslateError(d))
    THEN [tag |-> "Err", err |-> Unwrap(TranslateError(d)), input |-> input]
    ELSE IF IsSome(check_script) /\ Unwrap(check_script) # script_pubkey(Derived(d))
         THEN [tag |-> "Ok", derived |-> Derived(d), passed |-> FALSE, input |-> input]
         ELSE [tag |-> "Ok", derived |-> Derived(d), passed |-> TRUE,
               input |-> Populate(input, d)]

\* PsbtInputExt::update_with_descriptor_unchecked
update_with_descriptor_unchecked(input, d) ==
    LET r == update_input_with_descriptor_helper(input, d, None)
    IN  IF r.tag = "Ok"
        THEN [tag |-> "Ok", derived |-> r.derived, input |-> r.input]
        ELSE [tag |-> "Err", err |-> r.err, input |-> r.input]

\* bitcoin::Transaction, TxOut and Transaction::txid (a hash of the transaction)
TxOut(value, script) == [value |-> value, script_pubkey |-> script]

Transaction(version, output) == [version |-> version, output |-> output]

txid(tx) == <<"txid", tx>>

\* Vec::get with a zero-based index
Get(v, i) == IF i < Len(v) THEN Some(v[i + 1]) ELSE None

\* the txid check without the comparison (mod.rs:755-759 left out)
TxidMismatch_unchecked(input, txin) == FALSE

\* the check of the non_witness_utxo's txid (mod.rs:755-759)
TxidMismatch(input, txin) ==
    /\ IsSome(input.non_witness_utxo)
    /\ txin.previous_output.txid # txid(Unwrap(input.non_witness_utxo))

\* expected_spk taking the non_witness_utxo's output when both are present, unchecked
expected_spk_unchecked_pair(input, txin, d) ==
    LET vout == txin.previous_output.vout
    IN  CASE IsSome(input.witness_utxo) /\ IsNone(input.non_witness_utxo) ->
                IF IsSome(segwit_version(d))
                THEN Some(Unwrap(input.witness_utxo).script_pubkey)
                ELSE None
          [] IsNone(input.witness_utxo) /\ IsSome(input.non_witness_utxo) ->
                IF IsSome(segwit_version(d)) THEN None
                ELSE IF IsNone(Get(Unwrap(input.non_witness_utxo).output, vout)) THEN None
                     ELSE Some(Unwrap(Get(Unwrap(input.non_witness_utxo).output, vout)).script_pubkey)
          [] IsSome(input.witness_utxo) /\ IsSome(input.non_witness_utxo) ->
                IF IsNone(Get(Unwrap(input.non_witness_utxo).output, vout)) THEN None
                ELSE Some(Unwrap(Get(Unwrap(input.non_witness_utxo).output, vout)).script_pubkey)
          [] OTHER -> None

\* the expected_spk block (mod.rs:761-796): None where it returns Err(UtxoCheck)
expected_spk(input, txin, d) ==
    LET vout == txin.previous_output.vout
    IN  CASE IsSome(input.witness_utxo) /\ IsNone(input.non_witness_utxo) ->
                IF IsSome(segwit_version(d))
                THEN Some(Unwrap(input.witness_utxo).script_pubkey)
                ELSE None
          [] IsNone(input.witness_utxo) /\ IsSome(input.non_witness_utxo) ->
                IF IsSome(segwit_version(d)) THEN None
                ELSE IF IsNone(Get(Unwrap(input.non_witness_utxo).output, vout)) THEN None
                     ELSE Some(Unwrap(Get(Unwrap(input.non_witness_utxo).output, vout)).script_pubkey)
          [] IsSome(input.witness_utxo) /\ IsSome(input.non_witness_utxo) ->
                IF IsNone(Get(Unwrap(input.non_witness_utxo).output, vout)) THEN None
                ELSE IF Unwrap(input.witness_utxo)
                          # Unwrap(Get(Unwrap(input.non_witness_utxo).output, vout))
                     THEN None
                     ELSE Some(Unwrap(input.witness_utxo).script_pubkey)
          [] OTHER -> None

\* PsbtExt::update_input_with_descriptor: the result, the PSBT as it is left, and the
\* expected_spk and the helper's result where the call got that far
update_input_with_descriptor(p, input_index, d) ==
    LET n_inputs == Len(p.inputs)
        failed(e) == [result |-> [tag |-> "Err", err |-> e], psbt |-> p,
                      expected_spk |-> None, helper |-> None]
    IN  IF input_index >= n_inputs THEN failed("IndexOutOfBounds")
        ELSE IF input_index >= Len(p.tx_inputs) THEN failed("MissingInputUtxo")
        ELSE
        LET input == p.inputs[input_index + 1]
            txin == p.tx_inputs[input_index + 1]
            spk == expected_spk(input, txin, d)
            r == update_input_with_descriptor_helper(input, d, spk)
            after == [p EXCEPT !.inputs[input_index + 1] = r.input]
        IN  IF TxidMismatch(input, txin) THEN failed("UtxoCheck")
            ELSE IF IsNone(spk) THEN failed("UtxoCheck")
            ELSE IF r.tag = "Err"
                 THEN [result |-> [tag |-> "Err", err |-> "DerivationError", cause |-> r.err],
                       psbt |-> after, expected_spk |-> spk,
                       helper |-> Some([tag |-> "Err"])]
            ELSE IF ~r.passed
                 THEN [result |-> [tag |-> "Err", err |-> "MismatchedScriptPubkey"],
                       psbt |-> after, expected_spk |-> spk,
                       helper |-> Some([tag |-> "Ok", passed |-> FALSE])]
            ELSE [result |-> [tag |-> "Ok"], psbt |-> after, expected_spk |-> spk,
                  helper |-> Some([tag |-> "Ok", passed |-> TRUE])]

-----------------------------------------------------------------------------
(* Descriptor key strings: parsing and formatting (src/descriptor/key.rs).
   A string is kept as its parts: the text between '[' and ']' split at '/'
   (if the string starts with '['), and the rest split at '/'. *)

\* a key string has at most MaxSteps path steps after the key
MaxSteps == 2

\* the texts between two '/' of the model: numbers, hardened numbers in both
\* notations, the three wildcard markers, and a text that is no step
StepTexts == {"0", "1", "1'", "1h", "*", "*h", "*'", "x"}

\* bip32::ChildNumber::from_str: a trailing ' or h marks a hardened step
ChildNumber_from_str(t) ==
    CASE t = "0" -> Some(Normal(0))
      [] t = "1" -> Some(Normal(1))
      [] t = "1'" -> Some(Hardened(1))
      [] t = "1h" -> Some(Hardened(1))
      [] OTHER -> None

\* Display for bip32::ChildNumber: a hardened step is written with '
ChildNumber_fmt(c) ==
    IF c.hardened
    THEN (IF c.index = 0 THEN "0'" ELSE "1'")
    ELSE (IF c.index = 0 THEN "0" ELSE "1")

\* str::len of a step text
StepLen(t) == IF t \in {"0", "1", "*", "x"} THEN 1 ELSE 2

\* the key texts of the model: two xpubs, an xprv, a compressed public key in lower
\* and in upper case hex, an uncompressed one, one with the prefix 05, an x-only
\* key, a WIF private key, and a short text that is no key
KeyTexts == {"xpubA", "xpubB", "xprvA", "02p1", "02P1", "04p1", "05p1", "p1x", "K1", "zz"}

\* str::len of a key text
KeyLen(k) ==
    CASE k \in {"xpubA", "xpubB", "xprvA"} -> 111
      [] k \in {"02p1", "02P1", "05p1"} -> 66
      [] k = "04p1" -> 130
      [] k = "p1x" -> 64
      [] k = "K1" -> 52
      [] OTHER -> 10

\* the fingerprint texts of the model: lower case, upper case, too short, not hex
FingerprintTexts == {"d34db33f", "D34DB33F", "d34db33", "d34db33g"}

FingerprintLen(t) == IF t = "d34db33" THEN 7 ELSE 8

\* hex::FromHex accepts both cases; the bytes are written in lower case
Fingerprint_from_hex(t) ==
    CASE t \in {"d34db33f", "D34DB33F"} -> Some(LitFingerprint("d34db33f"))
      [] OTHER -> None

KeyString(origin, k, path) == [origin |-> origin, key |-> k, path |-> path]

OriginTexts ==
    {None} \cup {Some([fp |-> t, path |-> q]) :
                    t \in FingerprintTexts, q \in {<<>>, <<"0">>, <<"1h">>, <<"x">>}}

KeyStrings ==
    {KeyString(o, k, q) : o \in OriginTexts, k \in KeyTexts, q \in SeqsUpTo(StepTexts, MaxSteps)}

RECURSIVE PathTextLen(_)
PathTextLen(q) == IF Len(q) = 0 THEN 0 ELSE 1 + StepLen(q[1]) + PathTextLen(Tail(q))

\* s.len(), and key_part.len() of the part after the origin
KeyPartLen(s) == KeyLen(s.key) + PathTextLen(s.path)

StrLen(s) ==
    KeyPartLen(s)
    + (IF IsSome(s.origin)
       THEN 2 + FingerprintLen(Unwrap(s.origin).fp) + PathTextLen(Unwrap(s.origin).path)
       ELSE 0)

Ok(v) == [tag |-> "Ok", val |-> v]

Err(e) == [tag |-> "Err", err |-> e]

\* collect::<Result<DerivationPath, _>>() over ChildNumber::from_str: None on an error
RECURSIVE CollectPath(_)
CollectPath(q) ==
    IF Len(q) = 0 THEN Some(<<>>)
    ELSE IF IsNone(ChildNumber_from_str(q[1])) \/ IsNone(CollectPath(Tail(q))) THEN None
         ELSE Some(<<Unwrap(ChildNumber_from_str(q[1]))>> \o Unwrap(CollectPath(Tail(q))))

\* DescriptorXKey::parse_xkey_origin: the origin, if the string has one
parse_xkey_origin(s) ==
    IF IsNone(s.origin) THEN Ok(None)
    ELSE LET o == Unwrap(s.origin)
         IN  IF FingerprintLen(o.fp) # 8
             THEN Err("Master fingerprint should be 8 characters long")
             ELSE IF IsNone(Fingerprint_from_hex(o.fp))
             THEN Err("Malformed master fingerprint, expected 8 hex chars")
             ELSE IF IsNone(CollectPath(o.path))
             THEN Err("Error while parsing master derivation path")
             ELSE Ok(Some(<<Unwrap(Fingerprint_from_hex(o.fp)), Unwrap(CollectPath(o.path))>>))

\* ExtendedPubKey::from_str and ExtendedPrivKey::from_str
ExtendedPubKey_from_str(k) ==
    CASE k = "xpubA" -> Some(XKey("xA"))
      [] k = "xpubB" -> Some(XKey("xB"))
      [] OTHER -> None

ExtendedPrivKey_from_str(k) == IF k = "xprvA" THEN Some(XKey("xA")) ELSE None

\* the steps of parse_xkey_deriv with the check that nothing follows a marker left out
RECURSIVE DerivSteps_marker_anywhere(_, _, _)
DerivSteps_marker_anywhere(q, wildcard, path) ==
    IF Len(q) = 0 THEN Ok([derivation_path |-> path, wildcard |-> wildcard])
    ELSE CASE wildcard = "None" /\ q[1] = "*" ->
                DerivSteps_marker_anywhere(Tail(q), "Unhardened", path)
           [] wildcard = "None" /\ q[1] \in {"*'", "*h"} ->
                DerivSteps_marker_anywhere(Tail(q), "Hardened", path)
           [] OTHER ->
                IF IsNone(ChildNumber_from_str(q[1]))
                THEN Err("Error while parsing key derivation path")
                ELSE DerivSteps_marker_anywhere(
                         Tail(q), wildcard, Append(path, Unwrap(ChildNumber_from_str(q[1]))))

\* the filter_map and collect of parse_xkey_deriv over the texts after the key, from
\* the state (wildcard, path) on: the first error ends it
RECURSIVE DerivSteps(_, _, _)
DerivSteps(q, wildcard, path) ==
    IF Len(q) = 0 THEN Ok([derivation_path |-> path, wildcard |-> wildcard])
    ELSE CASE wildcard = "None" /\ q[1] = "*" -> DerivSteps(Tail(q), "Unhardened", path)
           [] wildcard = "None" /\ q[1] \in {"*'", "*h"} -> DerivSteps(Tail(q), "Hardened", path)
           [] wildcard # "None" ->
                Err("'*' may only appear as last element in a derivation path.")
           [] OTHER ->
                IF IsNone(ChildNumber_from_str(q[1]))
                THEN Err("Error while parsing key derivation path")
                ELSE DerivSteps(Tail(q), wildcard, Append(path, Unwrap(ChildNumber_from_str(q[1]))))

\* DescriptorXKey::<K>::parse_xkey_deriv, with xkey the outcome of K::from_str on the
\* text of the key
parse_xkey_deriv(xkey, s) ==
    IF IsNone(xkey) THEN Err("Error while parsing xkey.")
    ELSE LET r == DerivSteps(s.path, "None", <<>>)
         IN  IF r.tag = "Err" THEN r
             ELSE Ok([xkey |-> Unwrap(xkey),
                      derivation_path |-> r.val.derivation_path,
                      wildcard |-> r.val.wildcard])

\* key_part.contains("pub")
contains_pub(s) == s.key \in {"xpubA", "xpubB"}

\* &key_part[0..2]
Prefix(s) ==
    CASE s.key \in {"02p1", "02P1"} -> "02"
      [] s.key = "04p1" -> "04"
      [] s.key = "05p1" -> "05"
      [] OTHER -> "a1"

\* XOnlyPublicKey::from_str, bitcoin::PublicKey::from_str and PrivateKey::from_str of
\* the key part: hex, or base58, without any '/'
XOnlyPublicKey_from_str(s) ==
    IF s.key = "p1x" /\ s.path = <<>> THEN Some(SingleX("p1")) ELSE None

PublicKey_from_str(s) ==
    CASE s.key \in {"02p1", "02P1"} /\ s.path = <<>> -> Some(PublicKey(SingleX("p1"), FALSE, TRUE))
      [] s.key = "04p1" /\ s.path = <<>> -> Some(PublicKey(SingleX("p1"), TRUE, FALSE))
      [] OTHER -> None

PrivateKey_from_str(s) ==
    IF s.key = "K1" /\ s.path = <<>> THEN Some(<<"priv", SingleX("p1")>>) ELSE None

SinglePriv(origin, k) == [tag |-> "SinglePriv", origin |-> origin, key |-> k]

\* FromStr for DescriptorPublicKey
DescriptorPublicKey_from_str(s) ==
    LET origin == parse_xkey_origin(s)
        deriv == parse_xkey_deriv(ExtendedPubKey_from_str(s.key), s)
    IN  IF StrLen(s) < 64
        THEN Err("Key too short (<66 char), doesn't match any format")
        ELSE IF origin.tag = "Err" THEN origin
        ELSE IF contains_pub(s)
        THEN IF deriv.tag = "Err" THEN deriv
             ELSE Ok(DescriptorXKey(origin.val, deriv.val.xkey,
                                    deriv.val.derivation_path, deriv.val.wildcard))
        ELSE CASE KeyPartLen(s) = 64 ->
                    IF IsNone(XOnlyPublicKey_from_str(s))
                    THEN Err("Error while parsing simple xonly key")
                    ELSE Ok(SinglePub(origin.val, XOnly(Unwrap(XOnlyPublicKey_from_str(s)))))
               [] KeyPartLen(s) \in {66, 130} ->
                    IF Prefix(s) \notin {"02", "03", "04"}
                    THEN Err("Only publickeys with prefixes 02/03/04 are allowed")
                    ELSE IF IsNone(PublicKey_from_str(s))
                    THEN Err("Error while parsing simple public key")
                    ELSE Ok(SinglePub(origin.val, FullKey(Unwrap(PublicKey_from_str(s)))))
               [] OTHER -> Err("Public keys must be 64/66/130 characters in size")

\* FromStr for DescriptorSecretKey
DescriptorSecretKey_from_str(s) ==
    LET origin == parse_xkey_origin(s)
        deriv == parse_xkey_deriv(ExtendedPrivKey_from_str(s.key), s)
    IN  IF origin.tag = "Err" THEN origin
        ELSE IF KeyPartLen(s) <= 52
        THEN IF IsNone(PrivateKey_from_str(s))
             THEN Err("Error while parsing a WIF private key")
             ELSE Ok(SinglePriv(None, Unwrap(PrivateKey_from_str(s))))
        ELSE IF deriv.tag = "Err" THEN deriv
             ELSE Ok(XPrv(origin.val, deriv.val.xkey,
                          deriv.val.derivation_path, deriv.val.wildcard))

\* the lower case hex of a fingerprint: that of an origin read from a string is the
\* text it was read from, that of a key's hash is another text
Fingerprint_fmt(fp) == IF fp[1] = "lit" THEN fp[2] ELSE "0f0f0f0f"

\* fmt_derivation_path: the texts written after the '/'s
fmt_derivation_path(path) == [i \in 1..Len(path) |-> ChildNumber_fmt(path[i])]

\* maybe_fmt_master_id
maybe_fmt_master_id(origin) ==
    IF IsSome(origin)
    THEN Some([fp |-> Fingerprint_fmt(Unwrap(origin)[1]),
               path |-> fmt_derivation_path(Unwrap(origin)[2])])
    ELSE None

\* Display for ExtendedPubKey / ExtendedPrivKey, for the keys a string was read from
ExtendedPubKey_fmt(xkey) ==
    CASE xkey = XKey("xA") -> "xpubA"
      [] xkey = XKey("xB") -> "xpubB"
      [] OTHER -> "xpubDerived"

ExtendedPrivKey_fmt(xkey) == IF xkey = XKey("xA") THEN "xprvA" ELSE "xprvOther"

\* Display for bitcoin::PublicKey (lower case hex), XOnlyPublicKey and PrivateKey (WIF)
PublicKey_fmt(pk) == IF pk.compressed THEN "02p1" ELSE "04p1"

\* the texts written for the path and the wildcard
fmt_path_and_wildcard(k) ==
    fmt_derivation_path(k.derivation_path)
    \o (CASE k.wildcard = "None" -> <<>>
          [] k.wildcard = "Unhardened" -> <<"*">>
          [] k.wildcard = "Hardened" -> <<"*h">>)

\* Display for DescriptorPublicKey and for DescriptorSecretKey
fmt(k) ==
    CASE k.tag = "Single" ->
            KeyString(maybe_fmt_master_id(k.origin),
                      IF k.key.kind = "FullKey" THEN PublicKey_fmt(k.key.pk) ELSE "p1x",
                      <<>>)
      [] k.tag = "XPub" ->
            KeyString(maybe_fmt_master_id(k.origin), ExtendedPubKey_fmt(k.xkey),
                      fmt_path_and_wildcard(k))
      [] k.tag = "SinglePriv" ->
            KeyString(maybe_fmt_master_id(k.origin), "K1", <<>>)
      [] k.tag = "XPrv" ->
            KeyString(maybe_fmt_master_id(k.origin), ExtendedPrivKey_fmt(k.xkey),
                      fmt_path_and_wildcard(k))

-----------------------------------------------------------------------------
(* The key operations as a state machine: a key is drawn, operations are    *)
(* called on it and their results are recorded                              *)

\* the fingerprints a candidate key source carries
CandFingerprints ==
    {LitFingerprint("d34db33f"), xkey_fingerprint(XKey("xA")), xkey_fingerprint(XKey("xB"))}

IdlePsbt == [inputs |-> <<>>, tx_inputs |-> <<>>]

IdleLast == [op |-> "none", updates |-> 0]

InitKey ==
    /\ key \in DescriptorPublicKeys \cup XPrvs
    /\ call = [op |-> "none"]
    /\ ret = [tag |-> "none"]
    /\ psbt = IdlePsbt
    /\ desc = [shape |-> "none"]
    /\ last = IdleLast

Derive ==
    /\ call.op = "none"
    /\ key.tag \in {"Single", "XPub"}
    /\ \E index \in DeriveIndices :
        /\ call' = [op |-> "derive", index |-> index]
        /\ ret' = derive(key, index)
    /\ UNCHANGED <<key, psbtVars>>

DerivePublicKey ==
    /\ call.op = "none"
    /\ key.tag \in {"Single", "XPub"}
    /\ call' = [op |-> "derive_public_key"]
    /\ ret' = derive_public_key(key)
    /\ UNCHANGED <<key, psbtVars>>

Matches ==
    /\ call.op = "none"
    /\ key.tag \in {"XPub", "XPrv"}
    /\ \E fingerprint \in CandFingerprints, path \in PathsUpTo(MaxCandLen) :
        /\ call' = [op |-> "matches", fingerprint |-> fingerprint, path |-> path]
        /\ ret' = [tag |-> "Option", val |-> matches(key, fingerprint, path)]
    /\ UNCHANGED <<key, psbtVars>>

ToPublic ==
    /\ call.op = "none"
    /\ key.tag = "XPrv"
    /\ call' = [op |-> "to_public"]
    /\ ret' = to_public(key)
    /\ UNCHANGED <<key, psbtVars>>

\* key.master_fingerprint()
MasterFingerprint ==
    /\ call.op = "none"
    /\ key.tag \in {"Single", "XPub"}
    /\ call' = [op |-> "master_fingerprint"]
    /\ ret' = [tag |-> "Fingerprint", val |-> master_fingerprint(key)]
    /\ UNCHANGED <<key, psbtVars>>

\* key.full_derivation_path()
FullDerivationPath ==
    /\ call.op = "none"
    /\ key.tag \in {"Single", "XPub"}
    /\ call' = [op |-> "full_derivation_path"]
    /\ ret' = [tag |-> "DerivationPath", val |-> full_derivation_path(key)]
    /\ UNCHANGED <<key, psbtVars>>

\* key.is_deriveable()
IsDeriveable ==
    /\ call.op = "none"
    /\ key.tag \in {"Single", "XPub"}
    /\ call' = [op |-> "is_deriveable"]
    /\ ret' = [tag |-> "bool", val |-> is_deriveable(key)]
    /\ UNCHANGED <<key, psbtVars>>

\* derived.to_public_key(), on the key a call of derive has returned
ToPublicKey ==
    /\ call.op = "derive"
    /\ ret.tag = "Ok"
    /\ call' = [op |-> "to_public_key", index |-> call.index, derived |-> ret.val]
    /\ ret' = to_public_key(ret.val)
    /\ UNCHANGED <<key, psbtVars>>

NextKey ==
    \/ Derive
    \/ DerivePublicKey
    \/ Matches
    \/ ToPublic
    \/ MasterFingerprint
    \/ FullDerivationPath
    \/ IsDeriveable
    \/ ToPublicKey

SpecKey == InitKey /\ [][NextKey]_vars

-----------------------------------------------------------------------------
(* Extended private keys made public, and the operations on the public key *)

\* the longest derivation path of the extended private keys drawn here
MaxXPrvPathLen == 3

InitXPrv ==
    /\ key \in {XPrv(o, XKey(r), p, w) :
                    o \in Origins, r \in XRoots, p \in PathsUpTo(MaxXPrvPathLen),
                    w \in Wildcards}
    /\ call = [op |-> "none"]
    /\ ret = [tag |-> "none"]
    /\ psbt = IdlePsbt
    /\ desc = [shape |-> "none"]
    /\ last = IdleLast

\* let key = xprv.to_public(&secp)?: the program goes on with the public key, the
\* private key it came from being remembered
UsePublic ==
    /\ call.op = "to_public"
    /\ ret.tag = "Ok"
    /\ key' = ret.val
    /\ call' = [op |-> "none"]
    /\ ret' = [tag |-> "none"]
    /\ last' = [op |-> "to_public", updates |-> last.updates, source |-> key]
    /\ UNCHANGED <<psbt, desc>>

NextXPrv ==
    \/ ToPublic
    \/ UsePublic
    \/ Derive
    \/ DerivePublicKey
    \/ MasterFingerprint
    \/ ToPublicKey

SpecXPrv == InitXPrv /\ [][NextXPrv]_vars

-----------------------------------------------------------------------------
(* The sighash message builder: PsbtExt::sighash_msg (src/psbt/mod.rs) *)

\* finalizer::get_utxo: the witness_utxo if there is one, else the output of the
\* non_witness_utxo the outpoint names; None where it fails
get_utxo(p, index) ==
    LET inp == p.inputs[index + 1]
    IN  IF IsSome(inp.witness_utxo) THEN inp.witness_utxo
        ELSE IF IsSome(inp.non_witness_utxo)
        THEN Get(Unwrap(inp.non_witness_utxo).output, p.tx_inputs[index + 1].previous_output.vout)
        ELSE None

\* finalizer::prevouts: the UTXO of every input, None if one of them cannot be resolved
prevouts(p) ==
    IF \E i \in 1..Len(p.inputs) : IsNone(get_utxo(p, i - 1)) THEN None
    ELSE Some([i \in 1..Len(p.inputs) |-> Unwrap(get_utxo(p, i - 1))])

\* finalizer::get_scriptpubkey
get_scriptpubkey(p, index) ==
    IF IsNone(get_utxo(p, index)) THEN None ELSE Some(Unwrap(get_utxo(p, index)).script_pubkey)

\* Script::is_v1_p2tr, is_p2sh, is_v0_p2wpkh, is_v0_p2wsh
is_v1_p2tr(script) == script[1] = "p2tr"

is_p2sh(script) == script[1] = "p2sh"

is_v0_p2wpkh(script) == script[1] = "p2wpkh"

is_v0_p2wsh(script) == script[1] = "p2wsh"

\* the values of PsbtSighashType of the model: 0x00, 0x01, 0x81 and 0x04
SighashTypes == {"0x00", "0x01", "0x81", "0x04"}

\* PsbtSighashType::schnorr_hash_ty: None for a value that is no SchnorrSighashType
schnorr_hash_ty(t) ==
    CASE t = "0x00" -> Some("Default")
      [] t = "0x01" -> Some("All")
      [] t = "0x81" -> Some("AllPlusAnyoneCanPay")
      [] OTHER -> None

\* PsbtSighashType::ecdsa_hash_ty: None for a value that is no standard EcdsaSighashType
ecdsa_hash_ty(t) ==
    CASE t = "0x01" -> Some("All")
      [] t = "0x81" -> Some("AllPlusAnyoneCanPay")
      [] OTHER -> None

\* Script::as_bytes of a v0 p2wpkh program: OP_0, a push of 20 bytes, and the 20
\* bytes of the hash of the key, byte i being written <<key, i>>
as_bytes(script) == <<0, 20>> \o [i \in 1..20 |-> <<script[2], i>>]

\* script_code_wpkh keeping the two leading bytes of the witness program
script_code_wpkh_whole_program(script) ==
    <<118, 169, 20>> \o as_bytes(script) \o <<136, 172>>

\* script_code_wpkh: 0x76 0xa9 0x14, the bytes of the program after its first two,
\* 0x88 0xac
script_code_wpkh(script) ==
    <<118, 169, 20>> \o SubSeq(as_bytes(script), 3, Len(as_bytes(script))) \o <<136, 172>>

SighashErr(e) == [tag |-> "Err", err |-> e]

TapSighash(msg) == [tag |-> "Ok", variant |-> "TapSighash", msg |-> msg]

EcdsaSighash(msg) == [tag |-> "Ok", variant |-> "EcdsaSighash", msg |-> msg]

\* the taproot branch taking the flag as an ECDSA flag, All by default
sighash_taproot_with_ecdsa_flag(p, idx, outs, tapleaf_hash) ==
    LET inp == p.inputs[idx + 1]
        hash_ty == IF IsSome(inp.sighash_type)
                   THEN ecdsa_hash_ty(Unwrap(inp.sighash_type))
                   ELSE Some("All")
    IN  IF IsNone(hash_ty) THEN SighashErr("InvalidSighashType")
        ELSE IF IsSome(tapleaf_hash)
        THEN TapSighash(<<"taproot_script_spend_signature_hash", idx, outs,
                          Unwrap(tapleaf_hash), Unwrap(hash_ty)>>)
        ELSE TapSighash(<<"taproot_key_spend_signature_hash", idx, outs, Unwrap(hash_ty)>>)

\* sighash_msg for a v1 P2TR scriptPubkey (mod.rs:826-843)
sighash_taproot(p, idx, outs, tapleaf_hash) ==
    LET inp == p.inputs[idx + 1]
        hash_ty == IF IsSome(inp.sighash_type)
                   THEN schnorr_hash_ty(Unwrap(inp.sighash_type))
                   ELSE Some("Default")
    IN  IF IsNone(hash_ty) THEN SighashErr("InvalidSighashType")
        ELSE IF IsSome(tapleaf_hash)
        THEN TapSighash(<<"taproot_script_spend_signature_hash", idx, outs,
                          Unwrap(tapleaf_hash), Unwrap(hash_ty)>>)
        ELSE TapSighash(<<"taproot_key_spend_signature_hash", idx, outs, Unwrap(hash_ty)>>)

\* sighash_msg for any other scriptPubkey (mod.rs:844-896)
sighash_ecdsa(p, idx, inp_spk) ==
    LET inp == p.inputs[idx + 1]
        hash_ty == IF IsSome(inp.sighash_type)
                   THEN ecdsa_hash_ty(Unwrap(inp.sighash_type))
                   ELSE Some("All")
        amt == get_utxo(p, idx)
        is_nested_wpkh ==
            is_p2sh(inp_spk) /\ IsSome(inp.redeem_script) /\ is_v0_p2wpkh(Unwrap(inp.redeem_script))
        is_nested_wsh ==
            is_p2sh(inp_spk) /\ IsSome(inp.redeem_script) /\ is_v0_p2wsh(Unwrap(inp.redeem_script))
        segwit(script_code) ==
            EcdsaSighash(<<"segwit_signature_hash", idx, script_code,
                           Unwrap(amt).value, Unwrap(hash_ty)>>)
        legacy(script_code) ==
            EcdsaSighash(<<"legacy_signature_hash", idx, script_code, Unwrap(hash_ty)>>)
    IN  IF IsNone(hash_ty) THEN SighashErr("InvalidSighashType")
        ELSE IF IsNone(amt) THEN SighashErr("MissingInputUtxo")
        ELSE IF is_v0_p2wpkh(inp_spk) \/ is_v0_p2wsh(inp_spk) \/ is_nested_wpkh \/ is_nested_wsh
        THEN IF is_v0_p2wpkh(inp_spk) THEN segwit(script_code_wpkh(inp_spk))
             ELSE IF is_nested_wpkh THEN segwit(script_code_wpkh(Unwrap(inp.redeem_script)))
             ELSE IF IsNone(inp.witness_script) THEN SighashErr("MissingWitnessScript")
             ELSE segwit(Unwrap(inp.witness_script))
        ELSE IF is_p2sh(inp_spk)
             THEN IF IsNone(inp.redeem_script) THEN SighashErr("MissingRedeemScript")
                  ELSE legacy(Unwrap(inp.redeem_script))
             ELSE legacy(inp_spk)

\* sighash_msg asking for the prevouts of all inputs in the taproot branch only
sighash_msg_prevouts_for_taproot(p, idx, tapleaf_hash) ==
    IF idx >= Len(p.inputs) THEN SighashErr("IndexOutOfBounds")
    ELSE IF IsNone(get_scriptpubkey(p, idx)) THEN SighashErr("MissingInputUtxo")
    ELSE IF is_v1_p2tr(Unwrap(get_scriptpubkey(p, idx)))
         THEN IF IsNone(prevouts(p)) THEN SighashErr("MissingSpendUtxos")
              ELSE sighash_taproot(p, idx, Unwrap(prevouts(p)), tapleaf_hash)
         ELSE sighash_ecdsa(p, idx, Unwrap(get_scriptpubkey(p, idx)))

\* PsbtExt::sighash_msg
sighash_msg(p, idx, tapleaf_hash) ==
    IF idx >= Len(p.inputs) THEN SighashErr("IndexOutOfBounds")
    ELSE IF IsNone(prevouts(p)) THEN SighashErr("MissingSpendUtxos")
    ELSE IF IsNone(get_scriptpubkey(p, idx)) THEN SighashErr("MissingInputUtxo")
    ELSE IF is_v1_p2tr(Unwrap(get_scriptpubkey(p, idx)))
         THEN sighash_taproot(p, idx, Unwrap(prevouts(p)), tapleaf_hash)
         ELSE sighash_ecdsa(p, idx, Unwrap(get_scriptpubkey(p, idx)))

-----------------------------------------------------------------------------
(* Parsing a key string and writing the parsed key out again *)

InitParse ==
    /\ key = [tag |-> "none"]
    /\ call = [op |-> "none"]
    /\ ret = [tag |-> "none"]
    /\ psbt = IdlePsbt
    /\ desc = [shape |-> "none"]
    /\ last = IdleLast

\* s.parse::<DescriptorPublicKey>()
ParsePublic ==
    /\ call.op = "none"
    /\ \E s \in KeyStrings :
        /\ call' = [op |-> "DescriptorPublicKey::from_str", s |-> s]
        /\ ret' = DescriptorPublicKey_from_str(s)
        /\ key' = IF ret'.tag = "Ok" THEN ret'.val ELSE key
    /\ UNCHANGED psbtVars

\* s.parse::<DescriptorSecretKey>()
ParseSecret ==
    /\ call.op = "none"
    /\ \E s \in KeyStrings :
        /\ call' = [op |-> "DescriptorSecretKey::from_str", s |-> s]
        /\ ret' = DescriptorSecretKey_from_str(s)
        /\ key' = IF ret'.tag = "Ok" THEN ret'.val ELSE key
    /\ UNCHANGED psbtVars

\* key.to_string() of the key just parsed
Display ==
    /\ call.op \in {"DescriptorPublicKey::from_str", "DescriptorSecretKey::from_str"}
    /\ ret.tag = "Ok"
    /\ call' = [op |-> "to_string", s |-> call.s]
    /\ ret' = Ok(fmt(key))
    /\ UNCHANGED <<key, psbtVars>>

NextParse == ParsePublic \/ ParseSecret \/ Display

SpecParse == InitParse /\ [][NextParse]_vars

-----------------------------------------------------------------------------
(* The descriptor binder as a state machine: one PSBT with one input, updated
   at most MaxUpdates times with the descriptor of the UTXO it spends *)

\* an update is run at most MaxUpdates times on the PSBT
MaxUpdates == 2

\* psbt::Input::default()
DefaultInput ==
    [bip32_derivation |-> EmptyMap, tap_internal_key |-> None, tap_merkle_root |-> None,
     tap_key_origins |-> EmptyMap, tap_scripts |-> EmptyMap,
     witness_script |-> None, redeem_script |-> None,
     witness_utxo |-> None, non_witness_utxo |-> None]

\* data another party has put into the input
ForeignX == SingleX("p9")

ForeignSource == <<LitFingerprint("f0f0f0f0"), <<Normal(1)>>>>

ForeignScript == <<"ms", <<PublicKey(ForeignX, FALSE, TRUE)>>>>

ForeignLeafHash == TapLeafHash(<<"tapscript", "pk", <<<<"pk", ForeignX>>>>>>)

ForeignRoot == <<"root", <<ForeignLeafHash>>>>

\* an input another party has populated, with entries of its own and entries for
\* the keys A and B of the descriptors
PopulatedInput ==
    LET xa == to_x_only_pubkey(derive_public_key(KA).pk)
        xb == to_x_only_pubkey(derive_public_key(KB).pk)
        entry == <<<<ForeignLeafHash>>, ForeignSource>>
    IN  [DefaultInput EXCEPT
           !.bip32_derivation =
               MapInsert(MapInsert(EmptyMap, [x |-> ForeignX, odd |-> FALSE], ForeignSource),
                         [x |-> xa, odd |-> FALSE], ForeignSource),
           !.tap_internal_key = Some(ForeignX),
           !.tap_merkle_root = Some(ForeignRoot),
           !.tap_key_origins =
               MapInsert(MapInsert(MapInsert(EmptyMap, ForeignX, entry), xa, entry), xb, entry),
           !.witness_script = Some(ForeignScript),
           !.redeem_script = Some(to_v0_p2wsh(ForeignScript))]

PreInputs == {DefaultInput, PopulatedInput}

\* the scripts a UTXO of the model pays to: the descriptor's own, if it has one, or another
UtxoScripts(d) ==
    {EmptyScript} \cup (IF IsNone(TranslateError(d)) THEN {script_pubkey(Derived(d))} ELSE {})

\* the witness_utxo values of the model
WitnessUtxos(d) == {None} \cup {Some(TxOut(1, s)) : s \in UtxoScripts(d)}

\* the non_witness_utxo values of the model: output 0 pays elsewhere, output 1 is o
NonWitnessUtxos(d) ==
    {None} \cup {Some(Transaction(2, <<TxOut(1, EmptyScript), o>>)) :
                    o \in {TxOut(1, s) : s \in UtxoScripts(d)} \cup {TxOut(2, EmptyScript)}}

OutPoint(id, vout) == [txid |-> id, vout |-> vout]

TxIn(previous_output) == [previous_output |-> previous_output]

\* the outpoints of the model: output 1 or 2 of the previous transaction, or output 1
\* of another transaction
OutPoints(nwu) ==
    {OutPoint(txid(Transaction(1, <<>>)), 1)}
    \cup (IF IsSome(nwu) THEN {OutPoint(txid(Unwrap(nwu)), vout) : vout \in {1, 2}} ELSE {})

Psbts(d) ==
    UNION {{[inputs |-> <<[pre EXCEPT !.witness_utxo = wu, !.non_witness_utxo = nwu]>>,
             tx_inputs |-> <<TxIn(o)>>] :
               pre \in PreInputs, wu \in WitnessUtxos(d), o \in OutPoints(nwu)} :
           nwu \in NonWitnessUtxos(d)}
    \cup {[inputs |-> <<pre>>, tx_inputs |-> <<>>] : pre \in PreInputs}

InitPsbt ==
    /\ key = [tag |-> "none"]
    /\ call = [op |-> "none"]
    /\ ret = [tag |-> "none"]
    /\ desc \in Descriptors
    /\ psbt \in Psbts(desc)
    /\ last = IdleLast

\* psbt.inputs[0].update_with_descriptor_unchecked(&desc)
UpdateUnchecked ==
    /\ last.updates < MaxUpdates
    /\ LET r == update_with_descriptor_unchecked(psbt.inputs[1], desc)
       IN  /\ psbt' = [psbt EXCEPT !.inputs[1] = r.input]
           /\ last' = [op |-> "update_with_descriptor_unchecked",
                       updates |-> last.updates + 1,
                       input_index |-> 0,
                       before |-> psbt,
                       result |-> [tag |-> r.tag],
                       expected_spk |-> None,
                       helper |-> None]
    /\ UNCHANGED <<keyVars, desc>>

\* psbt.update_input_with_descriptor(input_index, &desc)
UpdateChecked ==
    /\ last.updates < MaxUpdates
    /\ \E input_index \in 0..1 :
        LET r == update_input_with_descriptor(psbt, input_index, desc)
        IN  /\ psbt' = r.psbt
            /\ last' = [op |-> "update_input_with_descriptor",
                        updates |-> last.updates + 1,
                        input_index |-> input_index,
                        before |-> psbt,
                        result |-> r.result,
                        expected_spk |-> r.expected_spk,
                        helper |-> r.helper]
    /\ UNCHANGED <<keyVars, desc>>

NextPsbt == UpdateUnchecked \/ UpdateChecked

SpecPsbt == InitPsbt /\ [][NextPsbt]_vars

-----------------------------------------------------------------------------
(* The binder applied, once and again, to taproot descriptors of several leaves *)

\* a taproot descriptor drawn here has at most MaxTapLeaves leaves
MaxTapLeaves == 3

\* pk(B), multi_a(B,A) and a leaf that uses B twice
TapLeafSet ==
    {Leaf("pk", <<Plain(KB)>>),
     Leaf("multi_a", <<Plain(KB), Plain(KA)>>),
     Leaf("and_v", <<Plain(KB), Hashed(KB)>>)}

InitTap ==
    /\ key = [tag |-> "none"]
    /\ call = [op |-> "none"]
    /\ ret = [tag |-> "none"]
    /\ desc \in {Descriptor("Tr", <<k>>, ls) :
                    k \in {KA, KS}, ls \in SeqsUpTo(TapLeafSet, MaxTapLeaves)}
    /\ psbt = [inputs |-> <<DefaultInput>>, tx_inputs |-> <<>>]
    /\ last = IdleLast

NextTap == UpdateUnchecked

SpecTap == InitTap /\ [][NextTap]_vars

-----------------------------------------------------------------------------
(* Claims about the descriptor binder, checked under SpecPsbt *)

\* the input before and after the last update, and the transaction input it belongs to
Before == last.before.inputs[1]

After == psbt.inputs[1]

Checked == last.op = "update_input_with_descriptor"

\* a checked update that got past the two index lookups
CheckedInRange ==
    /\ Checked
    /\ last.input_index < Len(last.before.inputs)
    /\ last.input_index < Len(last.before.tx_inputs)

SpentOutPoint == last.before.tx_inputs[1].previous_output

UtxoCheckReturned == last.result.tag = "Err" /\ last.result.err = "UtxoCheck"

KeptEntries(m0, m1) == \A k \in DOMAIN m0 : k \in DOMAIN m1 /\ m1[k] = m0[k]

KeptIfSet(o0, o1) == IsSome(o0) => o1 = o0

IsPrefix(a, b) == Len(a) <= Len(b) /\ SubSeq(b, 1, Len(a)) = a

\* C1 as stated: after an update, every entry of bip32_derivation and of tap_key_origins
\* (leaf-hash list included) and every tap_internal_key, tap_merkle_root, witness_script
\* and redeem_script that was set before the call is still there with the same value.
C1_OnlyFillsEmptyFields ==
    last.op # "none" =>
        /\ KeptEntries(Before.bip32_derivation, After.bip32_derivation)
        /\ KeptEntries(Before.tap_key_origins, After.tap_key_origins)
        /\ KeptIfSet(Before.tap_internal_key, After.tap_internal_key)
        /\ KeptIfSet(Before.tap_merkle_root, After.tap_merkle_root)
        /\ KeptIfSet(Before.witness_script, After.witness_script)
        /\ KeptIfSet(Before.redeem_script, After.redeem_script)

\* C1, what an update does keep: an update that returns an error leaves the input as it
\* was. A successful update with a taproot descriptor leaves bip32_derivation,
\* witness_script and redeem_script as they were, sets tap_internal_key and
\* tap_merkle_root to the descriptor's, removes no key of tap_key_origins, and for every
\* key but the internal key keeps the entry's origin and keeps its leaf-hash list as a
\* prefix of the new list. A successful update with any other descriptor leaves the four
\* taproot fields as they were, leaves in bip32_derivation the descriptor's keys only,
\* and leaves a set witness_script or redeem_script set.
C1_WhatAnUpdateKeeps ==
    last.op # "none" =>
        /\ last.result.tag = "Err" => After = Before
        /\ (last.result.tag = "Ok" /\ desc.shape = "Tr") =>
            /\ After.bip32_derivation = Before.bip32_derivation
            /\ After.witness_script = Before.witness_script
            /\ After.redeem_script = Before.redeem_script
            /\ After.tap_internal_key = Some(to_x_only_pubkey(Derived(desc).keys[1]))
            /\ After.tap_merkle_root = merkle_root(Derived(desc))
            /\ \A k \in DOMAIN Before.tap_key_origins :
                /\ k \in DOMAIN After.tap_key_origins
                /\ k # Unwrap(After.tap_internal_key) =>
                    /\ After.tap_key_origins[k][2] = Before.tap_key_origins[k][2]
                    /\ IsPrefix(Before.tap_key_origins[k][1], After.tap_key_origins[k][1])
        /\ (last.result.tag = "Ok" /\ desc.shape # "Tr") =>
            /\ After.tap_internal_key = Before.tap_internal_key
            /\ After.tap_merkle_root = Before.tap_merkle_root
            /\ After.tap_key_origins = Before.tap_key_origins
            /\ After.tap_scripts = Before.tap_scripts
            /\ DOMAIN After.bip32_derivation =
                   {[x |-> Derived(desc).keys[i].x, odd |-> Derived(desc).keys[i].odd] :
                      i \in 1..Len(desc.keys)}
            /\ IsSome(Before.witness_script) => IsSome(After.witness_script)
            /\ IsSome(Before.redeem_script) => IsSome(After.redeem_script)

\* a successful taproot update has extended the leaf-hash list another party had
\* recorded for one of the descriptor's leaf keys
C1_Witness ==
    /\ last.op # "none"
    /\ last.result.tag = "Ok"
    /\ desc.shape = "Tr"
    /\ \E k \in DOMAIN Before.tap_key_origins :
        /\ k # Unwrap(After.tap_internal_key)
        /\ Len(Before.tap_key_origins[k][1]) > 0
        /\ Len(After.tap_key_origins[k][1]) > Len(Before.tap_key_origins[k][1])

\* the checked update handed the helper an expected script that the derived
\* descriptor's scriptPubkey differs from
ScriptMismatch ==
    /\ CheckedInRange
    /\ IsSome(last.expected_spk)
    /\ IsNone(TranslateError(desc))
    /\ Unwrap(last.expected_spk) # script_pubkey(Derived(desc))

\* C2 as stated: when the expected scriptPubkey differs from the derived one, the input
\* is populated exactly as in the matching case and the helper returns a non-error
\* result with the flag saying mismatch, which the checked wrapper turns into
\* MismatchedScriptPubkey.
C2_MismatchStillPopulates ==
    ScriptMismatch =>
        /\ After = Populate(Before, desc)
        /\ IsSome(last.helper)
        /\ Unwrap(last.helper).tag = "Ok"
        /\ ~Unwrap(last.helper).passed
        /\ last.result.tag = "Err"
        /\ last.result.err = "MismatchedScriptPubkey"

\* C2, what the binder does: when the expected scriptPubkey differs from the derived
\* one, the helper writes no field of the input and returns a non-error result with the
\* flag saying mismatch, which the checked wrapper turns into MismatchedScriptPubkey;
\* when the two scripts are equal the input is populated and the update succeeds.
C2_MismatchWritesNothing ==
    (CheckedInRange /\ IsSome(last.expected_spk) /\ IsNone(TranslateError(desc))) =>
        /\ IsSome(last.helper)
        /\ Unwrap(last.helper).tag = "Ok"
        /\ IF Unwrap(last.expected_spk) # script_pubkey(Derived(desc))
           THEN /\ ~Unwrap(last.helper).passed
                /\ After = Before
                /\ last.result.tag = "Err"
                /\ last.result.err = "MismatchedScriptPubkey"
           ELSE /\ Unwrap(last.helper).passed
                /\ After = Populate(Before, desc)
                /\ last.result.tag = "Ok"

\* a mismatch on an input that populating would have changed
C2_Witness ==
    /\ ScriptMismatch
    /\ Populate(Before, desc) # Before
    /\ last.result.tag = "Err"
    /\ last.result.err = "MismatchedScriptPubkey"

\* the ways the claim lists for an input's UTXO data to be inconsistent
UtxoInconsistent(input, outpoint, d) ==
    LET wu == input.witness_utxo
        nwu == input.non_witness_utxo
    IN  \/ IsNone(wu) /\ IsNone(nwu)
        \/ IsSome(nwu) /\ outpoint.txid # txid(Unwrap(nwu))
        \/ IsSome(wu) /\ IsNone(nwu) /\ IsNone(segwit_version(d))
        \/ IsNone(wu) /\ IsSome(nwu) /\ IsSome(segwit_version(d))
        \/ IsSome(nwu) /\ outpoint.vout >= Len(Unwrap(nwu).output)
        \/ /\ IsSome(wu)
           /\ IsSome(nwu)
           /\ outpoint.vout < Len(Unwrap(nwu).output)
           /\ Unwrap(wu) # Unwrap(nwu).output[outpoint.vout + 1]

\* C3: whenever the input's UTXO data is inconsistent (the two UTXO fields disagree, the
\* non_witness_utxo's txid is not the outpoint's, the UTXO kind does not fit the
\* descriptor type, the vout does not exist, or both fields are absent),
\* update_input_with_descriptor returns UtxoCheck and has written nothing to the PSBT,
\* also when the descriptor cannot be derived or its scriptPubkey would not match.
C3_UtxoCheckBeforeAnyWrite ==
    (CheckedInRange /\ UtxoInconsistent(Before, SpentOutPoint, desc)) =>
        /\ UtxoCheckReturned
        /\ psbt = last.before

\* inconsistent UTXO data met with a descriptor whose keys cannot be derived, and with
\* an input that another party had populated
C3_Witness ==
    /\ CheckedInRange
    /\ UtxoInconsistent(Before, SpentOutPoint, desc)
    /\ IsSome(Before.witness_utxo)
    /\ IsSome(Before.non_witness_utxo)
    /\ IsSome(TranslateError(desc))
    /\ UtxoCheckReturned

\* C4: the expected scriptPubkey is chosen by these rules. Only non_witness_utxo: the
\* descriptor must be pre-segwit and the script is that of the output at the outpoint's
\* vout. Only witness_utxo: the descriptor must be segwit and the script is
\* witness_utxo.script_pubkey. Both: witness_utxo must equal the output at vout and
\* witness_utxo.script_pubkey is used. Neither: UtxoCheck. Wherever non_witness_utxo is
\* present its txid must be the outpoint's. Every failed requirement gives UtxoCheck.
C4_ExpectedScriptRules ==
    CheckedInRange =>
        LET wu == Before.witness_utxo
            nwu == Before.non_witness_utxo
            vout == SpentOutPoint.vout
            segwit == IsSome(segwit_version(desc))
            Chosen(script) == ~UtxoCheckReturned /\ last.expected_spk = Some(script)
        IN  CASE IsNone(wu) /\ IsSome(nwu) ->
                    IF \/ SpentOutPoint.txid # txid(Unwrap(nwu))
                       \/ segwit
                       \/ vout >= Len(Unwrap(nwu).output)
                    THEN UtxoCheckReturned
                    ELSE Chosen(Unwrap(nwu).output[vout + 1].script_pubkey)
              [] IsSome(wu) /\ IsNone(nwu) ->
                    IF ~segwit
                    THEN UtxoCheckReturned
                    ELSE Chosen(Unwrap(wu).script_pubkey)
              [] IsSome(wu) /\ IsSome(nwu) ->
                    IF \/ SpentOutPoint.txid # txid(Unwrap(nwu))
                       \/ vout >= Len(Unwrap(nwu).output)
                       \/ Unwrap(wu) # Unwrap(nwu).output[vout + 1]
                    THEN UtxoCheckReturned
                    ELSE Chosen(Unwrap(wu).script_pubkey)
              [] OTHER -> UtxoCheckReturned

\* both UTXO fields present and in agreement: the witness_utxo's script was the expected
\* one and the update succeeded
C4_Witness ==
    /\ CheckedInRange
    /\ IsSome(Before.witness_utxo)
    /\ IsSome(Before.non_witness_utxo)
    /\ last.expected_spk = Some(Unwrap(Before.witness_utxo).script_pubkey)
    /\ last.result.tag = "Ok"

\* the last update succeeded, so the input was populated
Populated == last.op # "none" /\ last.result.tag = "Ok"

\* the input was a default one before the update, its UTXO fields apart
FreshBefore ==
    [Before EXCEPT !.witness_utxo = None, !.non_witness_utxo = None] = DefaultInput

\* the x-only key a descriptor key derives to
DerivedXOnly(k) == to_x_only_pubkey(derive_public_key(k).pk)

\* the x-only keys of leaf i of the descriptor, and the leaf's script and hash
LeafXOnlyKeys(i) == {DerivedXOnly(desc.leaves[i].keys[j][2]) : j \in 1..Len(desc.leaves[i].keys)}

LeafScriptOf(i) == LeafScript(Derived(desc).leaves[i])

LeafHashOf(i) == TapLeafHash(LeafScriptOf(i))

\* the descriptor's keys, internal key and leaf keys, as a set
DescriptorKeySet == {KeysInOrder(desc)[i] : i \in 1..Len(KeysInOrder(desc))}

Elements(q) == {q[i] : i \in 1..Len(q)}

\* C17: updating a fresh input with a taproot descriptor sets tap_internal_key to the
\* derived internal key, sets tap_merkle_root iff there is a leaf, leaves one tap_scripts
\* entry per distinct leaf script, and leaves tap_key_origins with exactly one entry per
\* distinct derived x-only key: the internal key's leaf-hash list holds only the leaves it
\* occurs in (none: empty), a leaf key's list holds the hashes of exactly the leaves that
\* use it, and each origin is (master_fingerprint, full_derivation_path) of a descriptor
\* key deriving to that x-only key. Without leaves there is one entry and no tap_scripts.
C17_FreshTaprootUpdate ==
    (Populated /\ desc.shape = "Tr" /\ FreshBefore) =>
        LET leaves == 1..Len(desc.leaves)
            ik == DerivedXOnly(desc.keys[1])
            origins == After.tap_key_origins
        IN  /\ After.tap_internal_key = Some(ik)
            /\ IsSome(After.tap_merkle_root) <=> Len(desc.leaves) > 0
            /\ Cardinality(DOMAIN After.tap_scripts)
                 = Cardinality({LeafScriptOf(i) : i \in leaves})
            /\ DOMAIN origins = {ik} \cup UNION {LeafXOnlyKeys(i) : i \in leaves}
            /\ \A x \in DOMAIN origins :
                /\ Elements(origins[x][1]) = {LeafHashOf(i) : i \in {i \in leaves : x \in LeafXOnlyKeys(i)}}
                /\ \E k \in DescriptorKeySet : DerivedXOnly(k) = x /\ origins[x][2] = KeySource(k)
            /\ Len(desc.leaves) = 0 =>
                /\ Cardinality(DOMAIN origins) = 1
                /\ DOMAIN After.tap_scripts = {}

\* a fresh input updated with a descriptor whose two different leaves share a key: the
\* key's entry lists both leaf hashes
C17_Witness ==
    /\ Populated
    /\ desc.shape = "Tr"
    /\ FreshBefore
    /\ Len(desc.leaves) = 2
    /\ LeafHashOf(1) # LeafHashOf(2)
    /\ \E x \in DOMAIN After.tap_key_origins :
        After.tap_key_origins[x][1] = <<LeafHashOf(1), LeafHashOf(2)>>

\* the raw public key (the point) a descriptor key derives to
RawPublicKey(k) == [x |-> derive_public_key(k).pk.x, odd |-> derive_public_key(k).pk.odd]

\* C18: for a descriptor that is not taproot the binder records
\* bip32_derivation[derived raw public key] = (master_fingerprint, full_derivation_path)
\* for every key, and sets the scripts by shape: sh(wsh) sets witness_script to the inner
\* script and redeem_script to its P2WSH wrapper; sh(wpkh), sh(sortedmulti) and
\* sh(miniscript) set redeem_script only; wsh sets witness_script only; pkh, wpkh and
\* bare set neither. No taproot field is written.
C18_NonTaprootUpdate ==
    (Populated /\ desc.shape # "Tr") =>
        LET inner == inner_script(Derived(desc))
        IN  /\ \A i \in 1..Len(desc.keys) :
                /\ RawPublicKey(desc.keys[i]) \in DOMAIN After.bip32_derivation
                /\ \E j \in 1..Len(desc.keys) :
                    /\ RawPublicKey(desc.keys[j]) = RawPublicKey(desc.keys[i])
                    /\ After.bip32_derivation[RawPublicKey(desc.keys[i])]
                         = <<master_fingerprint(desc.keys[j]), full_derivation_path(desc.keys[j])>>
            /\ After.witness_script =
                 IF desc.shape \in {"ShWsh", "Wsh"} THEN Some(inner) ELSE Before.witness_script
            /\ After.redeem_script =
                 CASE desc.shape = "ShWsh" -> Some(to_v0_p2wsh(inner))
                   [] desc.shape \in {"ShWpkh", "ShSortedMulti", "ShMs"} -> Some(inner)
                   [] OTHER -> Before.redeem_script
            /\ After.tap_internal_key = Before.tap_internal_key
            /\ After.tap_merkle_root = Before.tap_merkle_root
            /\ After.tap_key_origins = Before.tap_key_origins
            /\ After.tap_scripts = Before.tap_scripts

\* a sh(miniscript) descriptor with two keys written to an input whose witness_script
\* another party had set: redeem_script is set, witness_script is as before
C18_Witness ==
    /\ Populated
    /\ desc.shape = "ShMs"
    /\ Len(desc.keys) = 2
    /\ IsSome(Before.witness_script)
    /\ After.witness_script = Before.witness_script
    /\ After.redeem_script = Some(inner_script(Derived(desc)))
    /\ After.redeem_script # Before.redeem_script

-----------------------------------------------------------------------------
(* Claims about key strings, checked under SpecParse *)

\* a text with its hex letters in lower case
LowerHex(t) ==
    CASE t = "D34DB33F" -> "d34db33f"
      [] t = "02P1" -> "02p1"
      [] OTHER -> t

\* a key string with the hex letters of its fingerprint and of its key in lower case
NormalizeHexCase(s) ==
    KeyString(IF IsSome(s.origin)
              THEN Some([fp |-> LowerHex(Unwrap(s.origin).fp), path |-> Unwrap(s.origin).path])
              ELSE None,
              LowerHex(s.key), s.path)

Parsing == call.op \in {"DescriptorPublicKey::from_str", "DescriptorSecretKey::from_str"}

Markers == {"*", "*h", "*'"}

\* the position of the first wildcard marker among the texts q, Len(q) + 1 if none
FirstMarker(q) ==
    IF \E i \in 1..Len(q) : q[i] \in Markers
    THEN CHOOSE i \in 1..Len(q) : q[i] \in Markers /\ \A j \in 1..(i - 1) : q[j] \notin Markers
    ELSE Len(q) + 1

\* C11: for every key string that parses, public or secret, writing the parsed key out
\* gives the string again, up to the case of hex letters.
C11_FormatParseRoundTrip ==
    call.op = "to_string" => NormalizeHexCase(ret.val) = NormalizeHexCase(call.s)

\* C12: a wildcard marker is accepted only as the last step after an extended key. A
\* string in which any step follows a marker does not parse, and when the rest of the
\* string is well formed and the steps before the first marker are valid the error is
\* "'*' may only appear as last element in a derivation path.". On success the stored
\* path holds the steps before the marker only, and the wildcard is Unhardened for a
\* final *, Hardened for a final *h or *', None without a marker.
C12_WildcardOnlyLast ==
    Parsing =>
        LET q == call.s.path
            m == FirstMarker(q)
            xkey_ok == IF call.op = "DescriptorPublicKey::from_str"
                       THEN IsSome(ExtendedPubKey_from_str(call.s.key))
                       ELSE IsSome(ExtendedPrivKey_from_str(call.s.key))
        IN  /\ m < Len(q) => ret.tag = "Err"
            /\ (/\ m < Len(q)
                /\ xkey_ok
                /\ parse_xkey_origin(call.s).tag = "Ok"
                /\ IsSome(CollectPath(SubSeq(q, 1, m - 1)))) =>
                    ret.err = "'*' may only appear as last element in a derivation path."
            /\ (ret.tag = "Ok" /\ xkey_ok) =>
                /\ Some(ret.val.derivation_path) = CollectPath(SubSeq(q, 1, m - 1))
                /\ ret.val.wildcard =
                     CASE m > Len(q) -> "None"
                       [] q[Len(q)] = "*" -> "Unhardened"
                       [] OTHER -> "Hardened"

\* an extended key followed by a marker and a further step was refused with the error
\* about the marker's position
C12_Witness ==
    /\ Parsing
    /\ FirstMarker(call.s.path) < Len(call.s.path)
    /\ call.s.key \in {"xpubA", "xprvA"}
    /\ ret.tag = "Err"
    /\ ret.err = "'*' may only appear as last element in a derivation path."

\* C13: a secret key string with an origin prefix parses to a key whose origin is the
\* parsed (fingerprint, path), for a WIF private key and for an extended private key
\* alike; the origin is absent only when the string has no prefix.
C13_SecretKeyKeepsOrigin ==
    (call.op = "DescriptorSecretKey::from_str" /\ ret.tag = "Ok") =>
        ret.val.origin =
            IF IsSome(call.s.origin)
            THEN Some(<<Unwrap(Fingerprint_from_hex(Unwrap(call.s.origin).fp)),
                        Unwrap(CollectPath(Unwrap(call.s.origin).path))>>)
            ELSE None

-----------------------------------------------------------------------------
(* Claims about the key model, checked under SpecKey *)

\* what a claim calls the key's effective fingerprint and the key's whole path
EffectiveFingerprint(k) ==
    IF IsSome(k.origin) THEN Unwrap(k.origin)[1] ELSE xkey_fingerprint(k.xkey)

OriginPath(k) == IF IsSome(k.origin) THEN Unwrap(k.origin)[2] ELSE <<>>

AllButLast(path) == SubSeq(path, 1, Len(path) - 1)

AllNormal(path) == \A i \in 1..Len(path) : ~path[i].hardened

\* C5: for every key and every index x < 2^31, derive(x) returns a derived key tagged
\* x whose inner key has no wildcard, the origin and extended key of the key derived
\* from, and that key's path: unchanged without a wildcard (or for a single key),
\* followed by the normal step x for an unhardened wildcard and by the hardened step
\* x for a hardened one. No derived key holds a wildcard.
C5_DeriveResolvesWildcard ==
    (call.op = "derive" /\ BelowTwo31(call.index)) =>
        /\ ret.tag = "Ok"
        /\ ret.val.index = call.index
        /\ ~is_deriveable(ret.val.key)
        /\ key.tag = "Single" => ret.val.key = key
        /\ key.tag = "XPub" =>
            /\ ret.val.key.tag = "XPub"
            /\ ret.val.key.wildcard = "None"
            /\ ret.val.key.origin = key.origin
            /\ ret.val.key.xkey = key.xkey
            /\ key.wildcard = "None" =>
                 ret.val.key.derivation_path = key.derivation_path
            /\ key.wildcard = "Unhardened" =>
                 ret.val.key.derivation_path =
                     key.derivation_path \o <<[hardened |-> FALSE, index |-> call.index.low]>>
            /\ key.wildcard = "Hardened" =>
                 ret.val.key.derivation_path =
                     key.derivation_path \o <<[hardened |-> TRUE, index |-> call.index.low]>>

C5_Witness ==
    /\ call.op = "derive"
    /\ call.index = U32(0, 2147483647)
    /\ key.tag = "XPub"
    /\ key.wildcard = "Hardened"
    /\ Len(key.derivation_path) = 1
    /\ ret.tag = "Ok"
    /\ Len(ret.val.key.derivation_path) = 2

\* C6 as claimed: derive(index) panics if index >= 2^31, whatever key it is called on,
\* and never panics when index < 2^31.
C6_PanicsIffIndexTooLarge ==
    call.op = "derive" => (ret.tag = "Panic" <=> ~BelowTwo31(call.index))

C8_DerivePublicKeyResult ==
    call.op = "derive_public_key" =>
        /\ (key.tag = "Single" /\ key.key.kind = "FullKey") =>
              ret = [tag |-> "Ok", pk |-> key.key.pk]
        /\ (key.tag = "Single" /\ key.key.kind = "XOnly") =>
              ret = [tag |-> "Ok",
                     pk |-> [x |-> key.key.x, odd |-> FALSE, compressed |-> TRUE]]
        /\ key.tag = "XPub" =>
            /\ ret = [tag |-> "Err", err |-> "Wildcard"] <=> key.wildcard = "Unhardened"
            /\ ret = [tag |-> "Err", err |-> "HardenedWildcard"] <=> key.wildcard = "Hardened"
            /\ key.wildcard = "None" =>
                /\ ret = [tag |-> "Err", err |-> "HardenedChild"]
                      <=> ~AllNormal(key.derivation_path)
                /\ AllNormal(key.derivation_path) =>
                      ret = [tag |-> "Ok",
                             pk |-> [x |-> <<key.xkey[1], key.xkey[2] \o key.derivation_path>>,
                                     odd |-> FALSE, compressed |-> TRUE]]

C8_Witness ==
    /\ call.op = "derive_public_key"
    /\ key.tag = "XPub"
    /\ key.wildcard = "Hardened"
    /\ key.derivation_path = <<Hardened(0)>>
    /\ ret = [tag |-> "Err", err |-> "HardenedWildcard"]

\* C9: on a key with a wildcard, matches(fingerprint, path) of a non-empty path does
\* not depend on the path's final element: it is Some(path without its final element)
\* when the fingerprint is the key's effective fingerprint and the truncated path is
\* origin path ++ derivation path, and None otherwise. On any key, a fingerprint other
\* than the effective one gives None.
C9_MatchesIgnoresWildcardElement ==
    call.op = "matches" =>
        /\ (key.wildcard # "None" /\ Len(call.path) > 0) =>
            /\ ret.val =
                  IF /\ call.fingerprint = EffectiveFingerprint(key)
                     /\ AllButLast(call.path) = OriginPath(key) \o key.derivation_path
                  THEN Some(AllButLast(call.path))
                  ELSE None
            /\ \A c \in ChildNumbers :
                  matches(key, call.fingerprint, Append(AllButLast(call.path), c)) = ret.val
        /\ call.fingerprint # EffectiveFingerprint(key) => ret.val = None

C9_Witness ==
    /\ call.op = "matches"
    /\ key.tag = "XPub"
    /\ key.wildcard = "Unhardened"
    /\ key.origin = Some(<<LitFingerprint("d34db33f"), <<Hardened(0)>>>>)
    /\ key.derivation_path = <<Normal(1)>>
    /\ call.path = <<Hardened(0), Normal(1), Hardened(1)>>
    /\ ret.val = Some(<<Hardened(0), Normal(1)>>)

\* C10 as claimed: whenever matches succeeds on a key with a wildcard, the candidate
\* path is the returned path followed by exactly one further element, so it is one
\* element longer than origin path ++ derivation path; a candidate path with no
\* element for the wildcard never matches a key with a wildcard.
C10_MatchSuppliesWildcardElement ==
    (call.op = "matches" /\ key.wildcard # "None" /\ IsSome(ret.val)) =>
        /\ Len(call.path) = Len(Unwrap(ret.val)) + 1
        /\ AllButLast(call.path) = Unwrap(ret.val)
        /\ Len(call.path) = Len(OriginPath(key) \o key.derivation_path) + 1

ZeroFingerprint == LitFingerprint("00000000")

C16_FullPathAndDeriveable ==
    /\ call.op = "full_derivation_path" =>
        /\ key.tag = "XPub" => ret.val = OriginPath(key) \o key.derivation_path
        /\ key.tag = "Single" => ret.val = OriginPath(key)
    /\ call.op = "is_deriveable" =>
        ret.val = (key.tag = "XPub" /\ key.wildcard # "None")

\* the full path of a wildcard key with both an origin path and a path of its own
C16_Witness ==
    /\ call.op = "full_derivation_path"
    /\ key.tag = "XPub"
    /\ key.wildcard # "None"
    /\ Len(OriginPath(key)) > 0
    /\ Len(key.derivation_path) > 0
    /\ Len(ret.val) = Len(OriginPath(key)) + Len(key.derivation_path)

-----------------------------------------------------------------------------
(* The sighash message builder as a state machine *)

\* an input as the builder reads it: the default input with its UTXO, scripts and flag
SighashInput(wu, nwu, sighash_type, redeem_script, witness_script) ==
    [sighash_type |-> sighash_type]
    @@ [DefaultInput EXCEPT !.witness_utxo = wu, !.non_witness_utxo = nwu,
                            !.redeem_script = redeem_script,
                            !.witness_script = witness_script]

SighashKey == "k1"

SighashInner == <<"ms", SighashKey>>

\* scriptPubkeys of the spent outputs: one per script type the builder tells apart
SpentScripts ==
    {<<"p2tr", SighashKey>>, <<"p2wpkh", SighashKey>>, <<"p2pkh", SighashKey>>,
     to_v0_p2wsh(SighashInner), <<"p2sh", SighashInner>>}

\* the UTXO of an input: none, a witness_utxo, or a previous transaction whose
\* first output is the one spent
SpentUtxos(scripts) ==
    {[wu |-> None, nwu |-> None]}
    \cup {[wu |-> Some(TxOut(10, spk)), nwu |-> None] : spk \in scripts}
    \cup {[wu |-> None, nwu |-> Some(Transaction(1, <<TxOut(10, spk)>>))] :
            spk \in scripts \cap {<<"p2pkh", SighashKey>>, <<"p2sh", SighashInner>>}}

RedeemScripts ==
    {None, Some(<<"p2wpkh", SighashKey>>), Some(to_v0_p2wsh(SighashInner)), Some(SighashInner)}

\* the input whose fields are varied
SignedInputs ==
    {SighashInput(u.wu, u.nwu, t, rs, ws) :
        u \in SpentUtxos(SpentScripts),
        t \in {None} \cup {Some(f) : f \in SighashTypes},
        rs \in RedeemScripts,
        ws \in {None, Some(SighashInner)}}

\* a second input, with or without a UTXO
OtherInputs ==
    {SighashInput(u.wu, u.nwu, None, None, None) :
        u \in SpentUtxos({<<"p2tr", SighashKey>>, <<"p2pkh", SighashKey>>})}

SighashTxIn == TxIn(OutPoint(txid(Transaction(1, <<>>)), 0))

SighashPsbts ==
    {[inputs |-> <<a>>, tx_inputs |-> <<SighashTxIn>>] : a \in SignedInputs}
    \cup {[inputs |-> <<a, b>>, tx_inputs |-> <<SighashTxIn, SighashTxIn>>] :
            a \in SignedInputs, b \in OtherInputs}

TapLeafHashes == {None, Some(<<"TapLeafHash", SighashInner>>)}

InitSighash ==
    /\ key = [tag |-> "none"]
    /\ call = [op |-> "none"]
    /\ ret = [tag |-> "none"]
    /\ desc = [shape |-> "none"]
    /\ psbt \in SighashPsbts
    /\ last = IdleLast

\* psbt.sighash_msg(idx, &mut cache, tapleaf_hash)
SighashMsg ==
    /\ \E idx \in 0..2, tapleaf_hash \in TapLeafHashes :
        last' = [op |-> "sighash_msg",
                 updates |-> last.updates,
                 idx |-> idx,
                 tapleaf_hash |-> tapleaf_hash,
                 result |-> sighash_msg(psbt, idx, tapleaf_hash)]
    /\ UNCHANGED <<keyVars, psbt, desc>>

NextSighash == SighashMsg

SpecSighash == InitSighash /\ [][NextSighash]_vars

-----------------------------------------------------------------------------
(* Claims about the sighash message builder, checked under SpecSighash *)

Signing == last.op = "sighash_msg"

InRange == Signing /\ last.idx < Len(psbt.inputs)

\* every input of the PSBT has a resolvable UTXO
AllResolved == \A i \in 1..Len(psbt.inputs) : IsSome(get_utxo(psbt, i - 1))

\* the input being signed has a resolvable UTXO, and its scriptPubkey
OwnResolved == InRange /\ IsSome(get_utxo(psbt, last.idx))

OwnSpk == Unwrap(get_utxo(psbt, last.idx)).script_pubkey

TaprootInput == OwnResolved /\ OwnSpk[1] = "p2tr"

NonTaprootInput == OwnResolved /\ OwnSpk[1] # "p2tr"

Declared == psbt.inputs[last.idx + 1].sighash_type

SchnorrFlags == {"0x00", "0x01", "0x81"}

EcdsaFlags == {"0x01", "0x81"}

IllegalFlag ==
    /\ IsSome(Declared)
    /\ \/ TaprootInput /\ Unwrap(Declared) \notin SchnorrFlags
       \/ NonTaprootInput /\ Unwrap(Declared) \notin EcdsaFlags

\* the flag the digest was computed with: the last component of the message
FlagUsed == last.result.msg[Len(last.result.msg)]

C20_PrevoutsOnlyForTaproot ==
    Signing =>
        /\ last.result = SighashErr("MissingSpendUtxos") => TaprootInput
        /\ (NonTaprootInput /\ ~AllResolved /\ last.result.tag = "Err") =>
                last.result.err \in {"InvalidSighashType", "MissingWitnessScript",
                                     "MissingRedeemScript"}

\* C20, as the code has it: for an index in range MissingSpendUtxos is returned
\* exactly when some input of the PSBT has no resolvable UTXO, whatever the type of
\* the input being signed, and MissingInputUtxo is then never returned.
C20_PrevoutsInBothRegimes ==
    InRange =>
        /\ last.result = SighashErr("MissingSpendUtxos") <=> ~AllResolved
        /\ last.result # SighashErr("MissingInputUtxo")

\* a non-taproot input with a resolvable UTXO, signed while the other input has none
C20_Witness ==
    /\ Signing
    /\ Len(psbt.inputs) = 2
    /\ NonTaprootInput
    /\ IsNone(get_utxo(psbt, 1 - last.idx))
    /\ last.result = SighashErr("MissingSpendUtxos")

-----------------------------------------------------------------------------
(* Sanity check, finalization and extraction (src/psbt/mod.rs) *)

InputError(e, index) == [tag |-> "InputError", err |-> e, index |-> index]

\* the keys of partial_sigs in the order the BTreeMap iterates them
SigKeys == <<"k1", "k2">>

\* the loop over input.partial_sigs from the i-th key on: the first error, or None
PartialSigsLoop(input, index, target, i) ==
    LET F[j \in 1..(Len(SigKeys) + 1)] ==
            IF j > Len(SigKeys) THEN None
            ELSE IF SigKeys[j] \notin DOMAIN input.partial_sigs THEN F[j + 1]
            ELSE LET flag == ecdsa_hash_ty(input.partial_sigs[SigKeys[j]])
                 IN  IF IsNone(flag)
                     THEN Some(InputError([tag |-> "Interpreter", err |-> "NonStandardSighash",
                                           sig |-> SigKeys[j]], index))
                     ELSE IF target # Unwrap(flag)
                     THEN Some(InputError([tag |-> "WrongSighashFlag", required |-> target,
                                           got |-> Unwrap(flag), pubkey |-> SigKeys[j]], index))
                     ELSE F[j + 1]
    IN  F[i]

\* sanity_check
sanity_check(p) ==
    IF Len(p.tx_inputs) # Len(p.inputs)
    THEN Err([tag |-> "WrongInputCount", in_tx |-> Len(p.tx_inputs), in_map |-> Len(p.inputs)])
    ELSE LET F[index \in 0..Len(p.inputs)] ==
                 IF index = Len(p.inputs) THEN Ok(<<>>)
                 ELSE LET input == p.inputs[index + 1]
                          target == IF IsSome(input.sighash_type)
                                    THEN ecdsa_hash_ty(Unwrap(input.sighash_type))
                                    ELSE Some("All")
                      IN  IF IsNone(target)
                          THEN Err(InputError([tag |-> "NonStandardSighashType",
                                              ty |-> Unwrap(input.sighash_type)], index))
                          ELSE IF IsSome(PartialSigsLoop(input, index, Unwrap(target), 1))
                          THEN Err(Unwrap(PartialSigsLoop(input, index, Unwrap(target), 1)))
                          ELSE F[index + 1]
         IN  F[0]

\* finalizer::interpreter_check: the first input whose final fields do not satisfy
\* the script it spends
interpreter_check(p) ==
    LET bad(n) == p.inputs[n].final_script_witness = Some(<<"wit", "bad">>)
    IN  IF \E n \in 1..Len(p.inputs) : bad(n)
        THEN Err(InputError([tag |-> "Interpreter", err |-> "bad witness"],
                            (CHOOSE n \in 1..Len(p.inputs) :
                                bad(n) /\ \A m \in 1..(n - 1) : ~bad(m)) - 1))
        ELSE Ok(<<>>)

\* one turn of the loop of extract: input n must hold a final field, and the final
\* fields it holds are copied into input n of the transaction
ExtractInput(input, txin) ==
    LET w == IF IsSome(input.final_script_witness)
             THEN [txin EXCEPT !.witness = Unwrap(input.final_script_witness)]
             ELSE txin
    IN  IF IsSome(input.final_script_sig)
        THEN [w EXCEPT !.script_sig = Unwrap(input.final_script_sig)]
        ELSE w

RECURSIVE ExtractLoop(_, _, _)
ExtractLoop(p, tx, n) ==
    IF n = Len(p.inputs) THEN Ok(tx)
    ELSE IF IsNone(p.inputs[n + 1].final_script_sig) /\ IsNone(p.inputs[n + 1].final_script_witness)
    THEN Err(InputError([tag |-> "MissingWitness"], n))
    ELSE ExtractLoop(p, [tx EXCEPT ![n + 1] = ExtractInput(p.inputs[n + 1], tx[n + 1])], n + 1)

\* extract running the interpreter check before it looks for the final fields
extract_interpreter_first(p) ==
    IF sanity_check(p).tag = "Err" THEN sanity_check(p)
    ELSE IF interpreter_check(p).tag = "Err" THEN interpreter_check(p)
    ELSE ExtractLoop(p, p.tx_inputs, 0)

\* PsbtExt::extract; the transaction is its sequence of inputs
extract(p) ==
    IF sanity_check(p).tag = "Err" THEN sanity_check(p)
    ELSE IF ExtractLoop(p, p.tx_inputs, 0).tag = "Err" THEN ExtractLoop(p, p.tx_inputs, 0)
    ELSE IF interpreter_check(p).tag = "Err" THEN interpreter_check(p)
    ELSE ExtractLoop(p, p.tx_inputs, 0)

\* finalizer::finalize_input: the input is satisfied from its partial signatures,
\* non-malleably or, if allow_mall, in any way; on success the final fields are set
\* and the fields they replace are cleared, on failure the PSBT is left as it is
finalize_input(p, index, allow_mall) ==
    LET input == p.inputs[index + 1]
        ms == input.witness_script
    IN  IF IsNone(ms) THEN [result |-> Err(InputError([tag |-> "MissingWitnessScript"], index)), psbt |-> p]
        ELSE IF "k1" \notin DOMAIN input.partial_sigs
                \/ (Unwrap(ms) = <<"ms", "mall">> /\ ~allow_mall)
        THEN [result |-> Err(InputError([tag |-> "CouldNotSatisfy"], index)), psbt |-> p]
        ELSE [result |-> Ok(<<>>),
              psbt |-> [p EXCEPT !.inputs[index + 1] =
                            [input EXCEPT !.final_script_witness = Some(<<"wit", Unwrap(ms)[2]>>),
                                          !.final_script_sig = None,
                                          !.partial_sigs = EmptyMap,
                                          !.sighash_type = None,
                                          !.witness_script = None]]]

\* the loop of finalize_mut and finalize_mall_mut from input index on: the PSBT, the
\* errors pushed and the calls made to finalize_input
RECURSIVE FinalizeLoop(_, _, _, _, _)
FinalizeLoop(p, allow_mall, index, errors, calls) ==
    IF index = Len(p.inputs) THEN [psbt |-> p, errors |-> errors, calls |-> calls]
    ELSE LET r == finalize_input(p, index, allow_mall)
         IN  FinalizeLoop(r.psbt, allow_mall, index + 1,
                          IF r.result.tag = "Err" THEN Append(errors, r.result.err) ELSE errors,
                          Append(calls, <<index, allow_mall>>))

\* the loop of finalize_mut stopping at the first input that fails
FinalizeAll_stopping_at_first_error(p, allow_mall) ==
    LET RECURSIVE G(_, _, _)
        G(q, index, calls) ==
            IF index = Len(q.inputs) THEN [psbt |-> q, result |-> Ok(<<>>), calls |-> calls]
            ELSE LET r == finalize_input(q, index, allow_mall)
                 IN  IF r.result.tag = "Err"
                     THEN [psbt |-> r.psbt, result |-> Err(<<r.result.err>>),
                           calls |-> Append(calls, <<index, allow_mall>>)]
                     ELSE G(r.psbt, index + 1, Append(calls, <<index, allow_mall>>))
    IN  G(p, 0, <<>>)

\* the body shared by finalize_mut (allow_mall false) and finalize_mall_mut (true)
FinalizeAll(p, allow_mall) ==
    LET l == FinalizeLoop(p, allow_mall, 0, <<>>, <<>>)
    IN  [psbt |-> l.psbt,
         result |-> IF l.errors = <<>> THEN Ok(<<>>) ELSE Err(l.errors),
         calls |-> l.calls]

\* PsbtExt::finalize_mut
finalize_mut(p) == FinalizeAll(p, FALSE)

\* PsbtExt::finalize_mall_mut
finalize_mall_mut(p) == FinalizeAll(p, TRUE)

\* the body shared by the by-value operations: Ok(self) or Err((self, e))
ByValue(r) ==
    [r EXCEPT !.result = IF r.result.tag = "Ok" THEN Ok(r.psbt) ELSE Err(<<r.psbt, r.result.err>>)]

\* PsbtExt::finalize
finalize(p) == ByValue(finalize_mut(p))

\* PsbtExt::finalize_mall
finalize_mall(p) == ByValue(finalize_mall_mut(p))

\* the body of finalize_inp_mut and of finalize_inp_mall_mut for the value of
\* allow_mall each of them passes on
FinalizeOne(p, index, allow_mall) ==
    IF index >= Len(p.inputs)
    THEN [psbt |-> p,
          result |-> Err([tag |-> "InputIdxOutofBounds", psbt_inp |-> Len(p.inputs),
                          index |-> index]),
          calls |-> <<>>]
    ELSE [psbt |-> finalize_input(p, index, allow_mall).psbt,
          result |-> finalize_input(p, index, allow_mall).result,
          calls |-> <<<<index, allow_mall>>>>]

\* PsbtExt::finalize_inp_mut
finalize_inp_mut(p, index) == FinalizeOne(p, index, FALSE)

\* PsbtExt::finalize_inp
finalize_inp(p, index) == ByValue(finalize_inp_mut(p, index))

\* PsbtExt::finalize_inp_mall_mut: it passes allow_mall false as finalize_inp_mut does
finalize_inp_mall_mut(p, index) == FinalizeOne(p, index, FALSE)

\* PsbtExt::finalize_inp_mall
finalize_inp_mall(p, index) == ByValue(finalize_inp_mall_mut(p, index))

-----------------------------------------------------------------------------
(* Sanity check, finalization and extraction as a state machine *)

\* the largest number of inputs of a PSBT
MaxInputs == 2

\* an input as these operations read and write it
FinalInput(sighash_type, partial_sigs, witness_script, final_script_sig, final_script_witness) ==
    [partial_sigs |-> partial_sigs, final_script_sig |-> final_script_sig,
     final_script_witness |-> final_script_witness]
    @@ SighashInput(None, None, sighash_type, None, witness_script)

\* partial_sigs maps: the sighash byte of the signature of each key that signed; an
\* EcdsaSig holds an EcdsaSighashType, so the byte is always a standard one
SigMap(k1, k2) ==
    [k \in (IF k1 = "" THEN {} ELSE {"k1"}) \cup (IF k2 = "" THEN {} ELSE {"k2"}) |->
        IF k = "k1" THEN k1 ELSE k2]

\* inputs that are being signed
SigningInputs ==
    {FinalInput(None, sigs, Some(<<"ms", kind>>), None, None) :
        sigs \in {SigMap("", ""), SigMap("0x01", ""), SigMap("0x81", ""),
                  SigMap("0x01", "0x81")},
        kind \in {"pk", "mall"}}
    \cup {FinalInput(Some("0x81"), sigs, Some(<<"ms", "pk">>), None, None) :
            sigs \in {SigMap("", ""), SigMap("0x81", ""), SigMap("0x01", "")}}
    \cup {FinalInput(Some("0x00"), sigs, Some(<<"ms", "pk">>), None, None) :
            sigs \in {SigMap("", ""), SigMap("0x01", "")}}

\* inputs that hold final fields already
FinalizedInputs ==
    {FinalInput(None, EmptyMap, None, None, Some(<<"wit", "pk">>)),
     FinalInput(None, EmptyMap, None, Some(<<"sig", "pk">>), None),
     FinalInput(None, EmptyMap, None, None, Some(<<"wit", "bad">>))}

\* an input of the unsigned transaction
UnsignedTxIn ==
    [script_sig |-> <<"sig", "unsigned">>, witness |-> <<"wit", "unsigned">>] @@ SighashTxIn

\* PSBTs of up to MaxInputs inputs whose transaction has as many inputs or one more
FinalPsbts ==
    {[inputs |-> inputs, tx_inputs |-> [i \in 1..(Len(inputs) + extra) |-> UnsignedTxIn]] :
        inputs \in SeqsUpTo(SigningInputs \cup FinalizedInputs, MaxInputs), extra \in {0, 1}}

InitFinal ==
    /\ key = [tag |-> "none"]
    /\ call = [op |-> "none"]
    /\ ret = [tag |-> "none"]
    /\ desc = [shape |-> "none"]
    /\ psbt \in FinalPsbts
    /\ last = IdleLast

\* the record of a call: the operation, its index argument, the PSBT it was made
\* on, what it returned and the calls it made to finalize_input
CallRecord(op, index, result, calls) ==
    [op |-> op, updates |-> last.updates, index |-> index, before |-> psbt,
     result |-> result, calls |-> calls]

\* sanity_check(&psbt)
SanityCheck ==
    /\ last' = CallRecord("sanity_check", 0, sanity_check(psbt), <<>>)
    /\ UNCHANGED <<keyVars, psbt, desc>>

\* psbt.extract(&secp)
Extract ==
    /\ last' = CallRecord("extract", 0, extract(psbt), <<>>)
    /\ UNCHANGED <<keyVars, psbt, desc>>

\* psbt.finalize_mut(&secp)
FinalizeMut ==
    /\ psbt' = finalize_mut(psbt).psbt
    /\ last' = CallRecord("finalize_mut", 0, finalize_mut(psbt).result, finalize_mut(psbt).calls)
    /\ UNCHANGED <<keyVars, desc>>

\* psbt = psbt.finalize(&secp), the caller keeping the PSBT handed back
Finalize ==
    /\ psbt' = finalize(psbt).psbt
    /\ last' = CallRecord("finalize", 0, finalize(psbt).result, finalize(psbt).calls)
    /\ UNCHANGED <<keyVars, desc>>

\* psbt.finalize_mall_mut(&secp)
FinalizeMallMut ==
    /\ psbt' = finalize_mall_mut(psbt).psbt
    /\ last' = CallRecord("finalize_mall_mut", 0, finalize_mall_mut(psbt).result,
                          finalize_mall_mut(psbt).calls)
    /\ UNCHANGED <<keyVars, desc>>

\* psbt = psbt.finalize_mall(&secp)
FinalizeMall ==
    /\ psbt' = finalize_mall(psbt).psbt
    /\ last' = CallRecord("finalize_mall", 0, finalize_mall(psbt).result,
                          finalize_mall(psbt).calls)
    /\ UNCHANGED <<keyVars, desc>>

\* psbt.finalize_inp_mut(&secp, index)
FinalizeInpMut ==
    /\ \E index \in 0..MaxInputs :
        LET r == finalize_inp_mut(psbt, index)
        IN  /\ psbt' = r.psbt
            /\ last' = CallRecord("finalize_inp_mut", index, r.result, r.calls)
    /\ UNCHANGED <<keyVars, desc>>

\* psbt = psbt.finalize_inp(&secp, index)
FinalizeInp ==
    /\ \E index \in 0..MaxInputs :
        LET r == finalize_inp(psbt, index)
        IN  /\ psbt' = r.psbt
            /\ last' = CallRecord("finalize_inp", index, r.result, r.calls)
    /\ UNCHANGED <<keyVars, desc>>

\* psbt.finalize_inp_mall_mut(&secp, index)
FinalizeInpMallMut ==
    /\ \E index \in 0..MaxInputs :
        LET r == finalize_inp_mall_mut(psbt, index)
        IN  /\ psbt' = r.psbt
            /\ last' = CallRecord("finalize_inp_mall_mut", index, r.result, r.calls)
    /\ UNCHANGED <<keyVars, desc>>

\* psbt = psbt.finalize_inp_mall(&secp, index)
FinalizeInpMall ==
    /\ \E index \in 0..MaxInputs :
        LET r == finalize_inp_mall(psbt, index)
        IN  /\ psbt' = r.psbt
            /\ last' = CallRecord("finalize_inp_mall", index, r.result, r.calls)
    /\ UNCHANGED <<keyVars, desc>>

NextFinal ==
    \/ SanityCheck
    \/ Extract
    \/ FinalizeMut
    \/ Finalize
    \/ FinalizeMallMut
    \/ FinalizeMall
    \/ FinalizeInpMut
    \/ FinalizeInp
    \/ FinalizeInpMallMut
    \/ FinalizeInpMall

SpecFinal == InitFinal /\ [][NextFinal]_vars

-----------------------------------------------------------------------------
(* Claims about the sanity check, finalization and extraction, checked under
   SpecFinal *)

\* the PSBT the last call was made on
Called == last.before

HasPartialSig(input) == DOMAIN input.partial_sigs # {}

\* the flag partial signatures are compared with: the declared one, All without one
RequiredFlag(input) ==
    IF IsNone(input.sighash_type) THEN "0x01" ELSE Unwrap(input.sighash_type)

\* some partial signature of some input carries a flag other than the required one
SomeFlagDiffers(p) ==
    \E n \in 1..Len(p.inputs) : \E k \in DOMAIN p.inputs[n].partial_sigs :
        p.inputs[n].partial_sigs[k] # RequiredFlag(p.inputs[n])

\* C21: sanity_check returns WrongInputCount with both counts iff the counts differ;
\* otherwise it fails only if some partial signature carries a flag other than the
\* one its input requires, and then with WrongSighashFlag; with equal counts and no
\* partial signature it passes whatever sighash types the inputs declare.
C21_SanityCheckFailures ==
    last.op = "sanity_check" =>
        /\ (last.result.tag = "Err" /\ last.result.err.tag = "WrongInputCount")
              <=> Len(Called.tx_inputs) # Len(Called.inputs)
        /\ Len(Called.tx_inputs) # Len(Called.inputs) =>
              last.result = Err([tag |-> "WrongInputCount", in_tx |-> Len(Called.tx_inputs),
                                 in_map |-> Len(Called.inputs)])
        /\ (Len(Called.tx_inputs) = Len(Called.inputs) /\ last.result.tag = "Err") =>
              /\ SomeFlagDiffers(Called)
              /\ last.result.err.tag = "InputError"
              /\ last.result.err.err.tag = "WrongSighashFlag"
        /\ (Len(Called.tx_inputs) = Len(Called.inputs)
            /\ \A n \in 1..Len(Called.inputs) : ~HasPartialSig(Called.inputs[n])) =>
              last.result.tag = "Ok"

\* input n (from 1) holds neither final field
MissingFinal(p, n) ==
    IsNone(p.inputs[n].final_script_sig) /\ IsNone(p.inputs[n].final_script_witness)

\* C22: extract fails at the first failing step of sanity_check, the search in index
\* order for an input with neither final field (MissingWitness with the lowest such
\* index), the interpreter check; on success the transaction is unsigned_tx with,
\* per input, witness and script_sig replaced by the final fields that are present;
\* the transaction's inputs are never indexed out of range and the PSBT is not
\* modified.
C22_ExtractOrderAndResult ==
    last.op = "extract" =>
        /\ psbt = Called
        /\ IF sanity_check(Called).tag = "Err" THEN last.result = sanity_check(Called)
           ELSE /\ Len(Called.tx_inputs) = Len(Called.inputs)
                /\ IF \E n \in 1..Len(Called.inputs) : MissingFinal(Called, n)
                   THEN \E n \in 1..Len(Called.inputs) :
                            /\ MissingFinal(Called, n)
                            /\ \A m \in 1..(n - 1) : ~MissingFinal(Called, m)
                            /\ last.result = Err(InputError([tag |-> "MissingWitness"], n - 1))
                   ELSE IF interpreter_check(Called).tag = "Err"
                   THEN last.result = interpreter_check(Called)
                   ELSE /\ last.result.tag = "Ok"
                        /\ Len(last.result.val) = Len(Called.tx_inputs)
                        /\ \A n \in 1..Len(Called.inputs) :
                            LET input == Called.inputs[n]
                                unsigned == Called.tx_inputs[n]
                                out == last.result.val[n]
                            IN  /\ out.previous_output = unsigned.previous_output
                                /\ out.witness = IF IsSome(input.final_script_witness)
                                                 THEN Unwrap(input.final_script_witness)
                                                 ELSE unsigned.witness
                                /\ out.script_sig = IF IsSome(input.final_script_sig)
                                                    THEN Unwrap(input.final_script_sig)
                                                    ELSE unsigned.script_sig

\* a transaction extracted from two inputs, one with a final witness only and one
\* with a final script_sig only
C22_Witness ==
    /\ last.op = "extract"
    /\ last.result.tag = "Ok"
    /\ Len(Called.inputs) = 2
    /\ \E n \in 1..2 : IsNone(Called.inputs[n].final_script_sig)
    /\ \E n \in 1..2 : IsNone(Called.inputs[n].final_script_witness)

BatchOps == {"finalize_mut", "finalize_mall_mut", "finalize", "finalize_mall"}

ByValueOps == {"finalize", "finalize_mall", "finalize_inp", "finalize_inp_mall"}

MallOps == {"finalize_mall_mut", "finalize_mall", "finalize_inp_mall_mut", "finalize_inp_mall"}

\* the errors a call reports, whichever way it hands them back
ReportedErrors ==
    IF last.result.tag = "Ok" THEN <<>>
    ELSE IF last.op \in ByValueOps THEN last.result.err[2] ELSE last.result.err

\* the attempt on input n (from 0) of the PSBT the call was made on
Attempt(n) == finalize_input(Called, n, last.op \in MallOps)

FailingInputs == {n \in 0..(Len(Called.inputs) - 1) : Attempt(n).result.tag = "Err"}

\* C23: the batch operations attempt every input once, in index order, also after a
\* failure; they return Ok iff no attempt failed and otherwise one error per failing
\* input in input order; the inputs that succeeded are finalized afterwards and the
\* others are as before; the by-value forms hand back that PSBT in the Ok and in the
\* Err case.
C23_BatchFinalization ==
    last.op \in BatchOps =>
        /\ Len(last.calls) = Len(Called.inputs)
        /\ \A n \in 1..Len(last.calls) : last.calls[n] = <<n - 1, last.op \in MallOps>>
        /\ last.result.tag = "Ok" <=> FailingInputs = {}
        /\ Len(ReportedErrors) = Cardinality(FailingInputs)
        /\ \A i \in 1..Len(ReportedErrors) :
            /\ ReportedErrors[i].index \in FailingInputs
            /\ ReportedErrors[i] = Attempt(ReportedErrors[i].index).result.err
            /\ \A j \in 1..(i - 1) : ReportedErrors[j].index < ReportedErrors[i].index
        /\ Len(psbt.inputs) = Len(Called.inputs)
        /\ psbt.tx_inputs = Called.tx_inputs
        /\ \A n \in 0..(Len(Called.inputs) - 1) :
            psbt.inputs[n + 1] = Attempt(n).psbt.inputs[n + 1]
        /\ last.op \in ByValueOps =>
            IF last.result.tag = "Ok" THEN last.result.val = psbt
            ELSE last.result.err[1] = psbt

\* a batch over two inputs whose first input fails and whose second is finalized
C23_Witness ==
    /\ last.op \in BatchOps
    /\ Len(Called.inputs) = 2
    /\ FailingInputs = {0}
    /\ Len(ReportedErrors) = 1
    /\ IsSome(psbt.inputs[2].final_script_witness)
    /\ IsNone(Called.inputs[2].final_script_witness)

SingleOps == {"finalize_inp_mut", "finalize_inp", "finalize_inp_mall_mut", "finalize_inp_mall"}

\* C24: finalize_inp_mall_mut and finalize_inp_mall call the per-input finalizer with
\* allow_mall = true where finalize_inp_mut and finalize_inp call it with false, and
\* so finalize an input exactly when finalize_mall_mut would; all four return
\* InputIdxOutofBounds without calling the finalizer for an index past the inputs.
C24_SingleInputMallAllowsMalleable ==
    last.op \in SingleOps =>
        IF last.index >= Len(Called.inputs)
        THEN /\ last.calls = <<>>
             /\ last.result.tag = "Err"
             /\ ReportedErrors = [tag |-> "InputIdxOutofBounds",
                                  psbt_inp |-> Len(Called.inputs), index |-> last.index]
        ELSE /\ last.calls = <<<<last.index, last.op \in MallOps>>>>
             /\ psbt.inputs[last.index + 1]
                  = finalize_input(Called, last.index, last.op \in MallOps).psbt.inputs[last.index + 1]

-----------------------------------------------------------------------------
(* Claims about aborts and about extended private keys made public, checked
   under SpecKey and SpecXPrv *)

\* C25: no operation of the key model aborts except derive called with an index of
\* 2^31 or more; in particular to_public_key returns a key for every key derive has
\* produced, hardened steps and hardened wildcards included.
C25_OnlyDeriveAborts ==
    ret.tag = "Panic" => (call.op = "derive" /\ ~BelowTwo31(call.index))

\* the number k of steps at the end of path that are all unhardened: the steps after
\* the last hardened one
SplitPoint(path) ==
    CHOOSE k \in 0..Len(path) :
        /\ \A i \in (Len(path) - k + 1)..Len(path) : ~path[i].hardened
        /\ k = Len(path) \/ path[Len(path) - k].hardened

PathOfOrigin(o) == IF IsSome(o) THEN Unwrap(o)[2] ELSE <<>>

\* C26: to_public splits the stored path at k, the number of trailing unhardened
\* steps: the result's path is the last k steps, the prefix before them is empty or
\* ends in a hardened step and is the part derived on the private key, an origin
\* that existed keeps its fingerprint and gets the prefix appended to its path, the
\* wildcard is copied, and origin path ++ derivation path stays the same.
C26_ToPublicSplitsAtLastHardened ==
    (call.op = "to_public" /\ ret.tag = "Ok") =>
        LET path == key.derivation_path
            k == SplitPoint(path)
            prefix == SubSeq(path, 1, Len(path) - k)
            suffix == SubSeq(path, Len(path) - k + 1, Len(path))
        IN  /\ ret.val.derivation_path = suffix
            /\ \A i \in 1..Len(suffix) : ~suffix[i].hardened
            /\ prefix = <<>> \/ prefix[Len(prefix)].hardened
            /\ ret.val.xkey = derive_priv(key.xkey, prefix).xkey
            /\ IsSome(key.origin) =>
                ret.val.origin = Some(<<Unwrap(key.origin)[1], Unwrap(key.origin)[2] \o prefix>>)
            /\ ret.val.wildcard = key.wildcard
            /\ PathOfOrigin(ret.val.origin) \o ret.val.derivation_path
                 = PathOfOrigin(key.origin) \o path

\* an extended private key with an origin whose path has a hardened step between two
\* unhardened ones
C26_Witness ==
    /\ call.op = "to_public"
    /\ ret.tag = "Ok"
    /\ IsSome(key.origin)
    /\ Len(key.derivation_path) = 3
    /\ ~key.derivation_path[1].hardened
    /\ key.derivation_path[2].hardened
    /\ ~key.derivation_path[3].hardened
    /\ Len(ret.val.derivation_path) = 1
    /\ key.wildcard = "Unhardened"

-----------------------------------------------------------------------------
(* Claims about the leaf-hash lists of tap_key_origins, checked under SpecTap *)

\* the leaf hashes of the occurrences of the x-only key x in the leaves from i on,
\* in descriptor order
RECURSIVE Occurrences(_, _)
Occurrences(x, i) ==
    IF i > Len(desc.leaves) THEN <<>>
    ELSE LET keys == desc.leaves[i].keys
             here == {j \in 1..Len(keys) : DerivedXOnly(keys[j][2]) = x}
         IN  [n \in 1..Cardinality(here) |-> LeafHashOf(i)] \o Occurrences(x, i + 1)

\* q with every element dropped that repeats the one before it
RECURSIVE Collapse(_)
Collapse(q) ==
    IF Len(q) <= 1 THEN q
    ELSE IF q[Len(q)] = q[Len(q) - 1] THEN Collapse(SubSeq(q, 1, Len(q) - 1))
    ELSE Append(Collapse(SubSeq(q, 1, Len(q) - 1)), q[Len(q)])

\* C27: binding a taproot descriptor to a fresh input leaves, for each key, the
\* sequence of the leaf hashes of its occurrences in descriptor order with only
\* consecutive repeats collapsed: a key used several times in one leaf gets that
\* leaf's hash once, and a leaf hash that recurs after a different one is listed
\* again.
C27_AdjacentRepeatsCollapsed ==
    (last.op = "update_with_descriptor_unchecked" /\ last.updates = 1
     /\ last.result.tag = "Ok") =>
        \A x \in DOMAIN After.tap_key_origins :
            After.tap_key_origins[x][1] = Collapse(Occurrences(x, 1))

\* a key whose list names the same leaf hash twice, around another leaf hash, while
\* the leaf itself uses the key twice
C27_Witness ==
    /\ last.op = "update_with_descriptor_unchecked"
    /\ last.updates = 1
    /\ last.result.tag = "Ok"
    /\ \E x \in DOMAIN After.tap_key_origins :
        LET l == After.tap_key_origins[x][1]
        IN  /\ Len(l) = 3
            /\ l[1] = l[3]
            /\ l[1] # l[2]
            /\ Len(Occurrences(x, 1)) > 3

\* C29: applying update_with_descriptor_unchecked a second time with the same
\* descriptor leaves the input as the first application left it; the leaf-hash
\* lists of tap_key_origins do not grow.
C29_UpdateIsIdempotent ==
    (last.op = "update_with_descriptor_unchecked" /\ last.updates = 2) => After = Before

-----------------------------------------------------------------------------
(* A further claim about the sighash message builder, checked under SpecSighash *)

SignedInput == psbt.inputs[last.idx + 1]

RedeemIs(kind) ==
    IsSome(SignedInput.redeem_script) /\ Unwrap(SignedInput.redeem_script)[1] = kind

\* the P2PKH script 76 a9 14 <the 20 bytes of the hash in program> 88 ac
IsP2pkhCodeOf(code, program) ==
    /\ Len(code) = 25
    /\ SubSeq(code, 1, 3) = <<118, 169, 20>>
    /\ \A i \in 1..20 : code[3 + i] = <<program[2], i>>
    /\ SubSeq(code, 24, 25) = <<136, 172>>

\* the call returned the digest of the given algorithm over the given script code
DigestOf(algorithm, code) ==
    /\ last.result.tag = "Ok"
    /\ last.result.variant = "EcdsaSighash"
    /\ last.result.msg[1] = algorithm
    /\ code = last.result.msg[3]

\* C28: for a non-taproot input whose flag is legal, the digest is BIP143 over the
\* P2PKH script of the hash in the scriptPubkey for native P2WPKH, BIP143 over the
\* P2PKH script of the hash in the redeem script for P2SH with a P2WPKH redeem
\* script, BIP143 over witness_script (MissingWitnessScript without one) for native
\* P2WSH and for P2SH with a P2WSH redeem script, the legacy digest over
\* redeem_script (MissingRedeemScript without one) for any other P2SH, and the
\* legacy digest over the scriptPubkey for anything else; the P2PKH script code is
\* the 25 bytes 76 a9 14 <hash> 88 ac.
C28_NonTaprootScriptCode ==
    (InRange /\ AllResolved /\ NonTaprootInput /\ ~IllegalFlag) =>
        CASE OwnSpk[1] = "p2wpkh" ->
                /\ IsP2pkhCodeOf(last.result.msg[3], OwnSpk)
                /\ DigestOf("segwit_signature_hash", last.result.msg[3])
          [] OwnSpk[1] = "p2sh" /\ RedeemIs("p2wpkh") ->
                /\ IsP2pkhCodeOf(last.result.msg[3], Unwrap(SignedInput.redeem_script))
                /\ DigestOf("segwit_signature_hash", last.result.msg[3])
          [] OwnSpk[1] = "p2wsh" \/ (OwnSpk[1] = "p2sh" /\ RedeemIs("p2wsh")) ->
                IF IsNone(SignedInput.witness_script)
                THEN last.result = SighashErr("MissingWitnessScript")
                ELSE DigestOf("segwit_signature_hash", Unwrap(SignedInput.witness_script))
          [] OwnSpk[1] = "p2sh" /\ ~RedeemIs("p2wpkh") /\ ~RedeemIs("p2wsh") ->
                IF IsNone(SignedInput.redeem_script)
                THEN last.result = SighashErr("MissingRedeemScript")
                ELSE DigestOf("legacy_signature_hash", Unwrap(SignedInput.redeem_script))
          [] OTHER -> DigestOf("legacy_signature_hash", OwnSpk)

\* a P2SH input with a P2WPKH redeem script, signed over the synthesized script code
C28_Witness ==
    /\ InRange
    /\ NonTaprootInput
    /\ OwnSpk[1] = "p2sh"
    /\ RedeemIs("p2wpkh")
    /\ last.result.tag = "Ok"
    /\ last.result.msg[1] = "segwit_signature_hash"
    /\ Len(last.result.msg[3]) = 25

-----------------------------------------------------------------------------
(* A claim about the public key of an extended private key, checked under SpecXPrv *)

\* the key in hand is the one to_public returned for the private key last.source
FromPrivate == last.op = "to_public"

\* C30: the public key to_public returns has no hardened step in its derivation
\* path, so derive_public_key on it never returns HardenedChild: it returns Ok when
\* the wildcard is None, and for the key derive(i) returns, i < 2^31, when the
\* wildcard is Unhardened; its master_fingerprint is the origin fingerprint of the
\* private key if that had an origin and the fingerprint of its extended key if not.
C30_PublicKeyOfPrivateKey ==
    FromPrivate =>
        /\ \A i \in 1..Len(key.derivation_path) : ~key.derivation_path[i].hardened
        /\ key.wildcard = last.source.wildcard
        /\ call.op = "derive_public_key" =>
            /\ ret.tag = "Err" => ret.err # "HardenedChild"
            /\ key.wildcard = "None" => ret.tag = "Ok"
        /\ (call.op = "to_public_key" /\ key.wildcard \in {"None", "Unhardened"}) =>
            /\ derive_public_key(call.derived.key).tag = "Ok"
            /\ ret.tag = "Ok"
        /\ (call.op = "derive" /\ key.wildcard = "Unhardened" /\ BelowTwo31(call.index)) =>
            ret.tag = "Ok"
        /\ call.op = "master_fingerprint" =>
            ret.val = IF IsSome(last.source.origin)
                      THEN Unwrap(last.source.origin)[1]
                      ELSE xkey_fingerprint(last.source.xkey)

\* the public key of a private key without origin whose path has hardened steps,
\* derived at an index and turned into a public key
C30_Witness ==
    /\ FromPrivate
    /\ IsNone(last.source.origin)
    /\ \E i \in 1..Len(last.source.derivation_path) : last.source.derivation_path[i].hardened
    /\ key.wildcard = "Unhardened"
    /\ call.op = "to_public_key"
    /\ ret.tag = "Ok"

=============================================================================
